---- MODULE Spec2Model ----
(***************************************************************************)
(* Verification model of the eLabInterface table/markup core.             *)
(*                                                                         *)
(* Part 1 (SpecProj): the key-value projection of an ELNResponse,         *)
(*   src/elab_API.py: ELNResponse.as_dict, ELNResponse.__getitem__,       *)
(*   ELNResponse._get_dict_from_tables, ELNDataLogger.input.              *)
(* Part 2 (SpecScan): the markup table scanner,                           *)
(*   src/eLabAPI.py: MDInterpreter._get_raw_tabular_data.                 *)
(* Part 3 (SpecExtract): the scan followed by the directive interpreter,  *)
(*   src/eLabAPI.py: MDInterpreter.extract_tables.                        *)
(* Part 4 (SpecNorm): one call of a table normalizer or numeric           *)
(*   conversion on a grid, src/eLabAPI.py: _reformat_dataframe,           *)
(*   try_float_conversion; src/elab_API.py: _reformat_tables,             *)
(*   TabularData.convert_to_numeric.                                       *)
(* Part 5 (SpecImp): the importer, src/elab_API.py: ELNImporter.request,  *)
(*   select_item_from_api_response, check_user_selection, ping_api.       *)
(* Part 6 (SpecMd): the metadata of an ELNResponse, src/elab_API.py:      *)
(*   ELNResponse.__init__, add_metadata, extract_metadata,                *)
(*   identify_experiment_type.                                             *)
(* Part 7 (SpecSum): the dataset summary, src/data_processing.py and      *)
(*   src/dataProcessing.py: DataManager.generate_summary.                 *)
(*                                                                         *)
(* Python dicts whose iteration order is never read (self._metadata,      *)
(* table_dict) are functions; the dict built from a table's rows, which   *)
(* is iterated, is a sequence of <<key, value>> pairs in insertion order. *)
(* Strings that the code parses character by character are sequences of   *)
(* one-character strings.                                                  *)
(***************************************************************************)
EXTENDS Integers, Sequences, FiniteSets, TLC

VARIABLES
    \* ---- ELNResponse (src/elab_API.py) ----
    metadata,      \* self._metadata
    tables,        \* self._tables: [is_none, list]
    log,           \* the entries self._log appended since the running/last call began
    pc,            \* where the projection stands: "idle", "loop", "prompt"
    call,          \* the running (or last) call: [fn, duplicate_handling, item]
    todo,          \* the (key, value) elements the two loops still have to visit
    table_dict,    \* local table_dict of _get_dict_from_tables
    user_input,    \* local user_input of ELNDataLogger.input (last text typed)
    ret,           \* what the last call returned or raised
    \* ---- MDInterpreter._get_raw_tabular_data (src/eLabAPI.py) ----
    raw,               \* self.raw, the document text
    scan_pc,           \* "start", "scan" (inside the for loop), "done"
    lines,             \* local lines
    i,                 \* loop index into lines (0-based, as in the code)
    table_started,     \* local table_started
    start_index,       \* local start_index (0-based)
    stop_index,        \* local stop_index (0-based, exclusive); 0 until first bound
    commands,          \* local commands
    scan_tables,       \* local tables: the blocks of raw lines
    converted_tables,  \* local converted_tables: the csv readers handed back
    \* ---- MDInterpreter.extract_tables (src/eLabAPI.py) ----
    output_format,     \* argument output_format
    reformat,          \* argument reformat
    ext_pc,            \* "idle", "scan" (inside _get_raw_tabular_data), "loop", "done", "raised"
    ext_i,             \* loop index into tables (0-based)
    data_objects,      \* local data_objects
    self_tables,       \* self.tables
    ext_exc,           \* the exception extract_tables raised, "" if none
    \* ---- the table normalizer and the numeric conversions, one call ----
    norm_frame,        \* the DataFrame the call is made on
    norm_op,           \* the function called, "none" before the call
    norm_arg,          \* its other arguments: [force, cmds, text]
    norm_out,          \* what it returned or raised
    \* ---- ELNImporter (src/elab_API.py) ----
    imp_response,      \* self.response
    imp_working,       \* self.working: "None", "True", "False"
    imp_pc,            \* "idle", "prompt" (at input() of select_item_from_api_response)
    imp_call,          \* the running (or last) call: [fn, allow_list, return_http_response]
    imp_list,          \* the list the call selects from, or the items the API answered
    imp_input,         \* the text last typed or passed as user_selection
    imp_ret,           \* what the last call returned or raised
    imp_log,           \* the entries self._log appended since the call began
    \* ---- ELNResponse metadata (src/elab_API.py) ----
    md_response,       \* self._response, the dict received from the API
    md_metadata,       \* self._metadata
    md_id,             \* self.id
    md_pc,             \* "init" (inside __init__, before extract_metadata), "ready"
    md_call,           \* the last call: [fn, element, value]
    md_ret,            \* "" or the exception the last call raised
    md_log,            \* the entries self._log appended by the last call
    \* ---- DataManager (src/data_processing.py, src/dataProcessing.py) ----
    sum_summary,       \* self._summary
    sum_call,          \* the last generate_summary call: its arguments
    sum_ret            \* what it returned or raised

projVars == <<metadata, tables, log, pc, call, todo, table_dict, user_input, ret>>

scanVars == <<raw, scan_pc, lines, i, table_started, start_index, stop_index,
              commands, scan_tables, converted_tables>>

extVars == <<output_format, reformat, ext_pc, ext_i, data_objects, self_tables, ext_exc>>

vars == <<metadata, tables, log, pc, call, todo, table_dict, user_input, ret,
          raw, scan_pc, lines, i, table_started, start_index, stop_index,
          commands, scan_tables, converted_tables,
          output_format, reformat, ext_pc, ext_i, data_objects, self_tables, ext_exc,
          norm_frame, norm_op, norm_arg, norm_out,
          imp_response, imp_working, imp_pc, imp_call, imp_list, imp_input, imp_ret,
          imp_log,
          md_response, md_metadata, md_id, md_pc, md_call, md_ret, md_log,
          sum_summary, sum_call, sum_ret>>

normVars == <<norm_frame, norm_op, norm_arg, norm_out>>

impVars == <<imp_response, imp_working, imp_pc, imp_call, imp_list, imp_input, imp_ret,
             imp_log>>

\* what a step of one component leaves alone
mdVars == <<md_response, md_metadata, md_id, md_pc, md_call, md_ret, md_log>>

sumVars == <<sum_summary, sum_call, sum_ret>>

outsideProj == <<scanVars, extVars, normVars, impVars, mdVars, sumVars>>
outsideScan == <<projVars, extVars, normVars, impVars, mdVars, sumVars>>
outsideExtract == <<projVars, normVars, impVars, mdVars, sumVars>>
outsideNorm == <<projVars, scanVars, extVars, impVars, mdVars, sumVars>>
outsideImp == <<projVars, scanVars, extVars, normVars, mdVars, sumVars>>
outsideMd == <<projVars, scanVars, extVars, normVars, impVars, sumVars>>
outsideSum == <<projVars, scanVars, extVars, normVars, impVars, mdVars>>

----------------------------------------------------------------------------
(* Bounds of the model                                                     *)

MaxTables == 2      \* tables held by a response
MaxRows == 2        \* rows of all two-column tables of a response together
MaxLines == 4       \* lines of a document body

----------------------------------------------------------------------------
(* Python dicts as functions                                               *)

EmptyDict == [k \in {} |-> 0]

\* d[k] = v
DictSet(d, k, v) == [x \in (DOMAIN d) \cup {k} |-> IF x = k THEN v ELSE d[x]]

\* d.update(e)
DictUpdate(d, e) ==
    [x \in (DOMAIN d) \cup (DOMAIN e) |-> IF x \in DOMAIN e THEN e[x] ELSE d[x]]

\* dict(rows) for rows of two cells: keys in order of first occurrence, each
\* with the value of its last occurrence
RECURSIVE DictFromRows(_)
DictFromRows(rows) ==
    IF rows = <<>> THEN <<>>
    ELSE LET before == DictFromRows(SubSeq(rows, 1, Len(rows) - 1))
             k == rows[Len(rows)][1]
             v == rows[Len(rows)][2]
         IN  IF \E j \in 1..Len(before) : before[j][1] = k
             THEN [j \in 1..Len(before) |->
                      IF before[j][1] = k THEN <<k, v>> ELSE before[j]]
             ELSE Append(before, <<k, v>>)

----------------------------------------------------------------------------
(* Inputs                                                                  *)

\* A response as it stands once its tables were extracted and its metadata
\* filled: the keys stand for any strings, the metadata values differ from
\* every table value so that the origin of a projected value can be told.
Keys == {"a", "b"}
TableValues == {1, 2}
MetadataValues == {0}

KVRows == {<<k, v>> : k \in Keys, v \in TableValues}

\* two-column tables (TabularData over a DataFrame of shape (n, 2)); the
\* tables of a response are TabularData objects, as extract_tables leaves
\* them by default (reformat=True, output_format="dataframes")
KVTables ==
    {[width |-> 2, rows |-> r] :
        r \in UNION {[1..n -> KVRows] : n \in 0..MaxRows}}

\* tables of another column count; their first column repeats the keys
WideTables ==
    { [width |-> 3, rows |-> << <<"a", 1, 2>>, <<"b", 1, 2>> >>],
      [width |-> 1, rows |-> << <<"a">> >>] }

RECURSIVE KVRowCount(_)
KVRowCount(ts) ==
    IF ts = <<>> THEN 0
    ELSE (IF Head(ts).width = 2 THEN Len(Head(ts).rows) ELSE 0) + KVRowCount(Tail(ts))

TableLists ==
    {ts \in UNION {[1..n -> KVTables \cup WideTables] : n \in 0..MaxTables} :
        KVRowCount(ts) <= MaxRows}

MetadataRecords == UNION {[S -> MetadataValues] : S \in SUBSET Keys}

\* console lines typed at the prompt
InputTexts ==
    { <<"0">>, <<"1">>, <<" ", "1">>, <<"+", "1">>, <<"2">>, <<"-", "1">>,
      <<"x">>, <<"1", ".", "0">>, <<>> }

Policies == {"use first", "use last", "user selection", "raise error"}

----------------------------------------------------------------------------
(* int(user_input): surrounding blanks stripped, an optional sign, then    *)
(* one or more decimal digits; anything else is a ValueError               *)

Digits == {"0", "1", "2"}

DigitVal(c) == CASE c = "0" -> 0 [] c = "1" -> 1 [] c = "2" -> 2

RECURSIVE LStrip(_)
LStrip(s) == IF s # <<>> /\ Head(s) = " " THEN LStrip(Tail(s)) ELSE s

RECURSIVE RStrip(_)
RStrip(s) ==
    IF s # <<>> /\ s[Len(s)] = " " THEN RStrip(SubSeq(s, 1, Len(s) - 1)) ELSE s

RECURSIVE DecVal(_)
DecVal(ds) ==
    IF ds = <<>> THEN 0
    ELSE 10 * DecVal(SubSeq(ds, 1, Len(ds) - 1)) + DigitVal(ds[Len(ds)])

ParseInt(s) ==
    LET t == RStrip(LStrip(s))
        signed == t # <<>> /\ t[1] \in {"-", "+"}
        body == IF signed THEN Tail(t) ELSE t
    IN  IF body = <<>> \/ \E n \in 1..Len(body) : body[n] \notin Digits
        THEN [ok |-> FALSE, val |-> 0]
        ELSE [ok |-> TRUE,
              val |-> IF signed /\ t[1] = "-" THEN 0 - DecVal(body) ELSE DecVal(body)]

\* ELNDataLogger.input(..., input_type="int", value_range=(lo, hi)) returns
InputAccepted(s, lo, hi) ==
    LET p == ParseInt(s) IN p.ok /\ lo <= p.val /\ p.val <= hi

----------------------------------------------------------------------------
(* ELNResponse._get_dict_from_tables, element by element                   *)

LogEntry(cat, msg, key) == [cat |-> cat, msg |-> msg, key |-> key]

\* faulty variant of TableContributes: "at least two columns"
TableContributes_AtLeastTwo(t) == t.width >= 2

\* "if table.width == 2"
TableContributes(t) == t.width = 2

\* the elements the loops "for table in self._tables: if table.width == 2:
\* for element in dict(table._data.values)" visit, in order
RECURSIVE Elements(_)
Elements(ts) ==
    IF ts = <<>> THEN <<>>
    ELSE (IF TableContributes(Head(ts)) THEN DictFromRows(Head(ts).rows) ELSE <<>>)
         \o Elements(Tail(ts))

NoCall == [fn |-> "none", duplicate_handling |-> "raise error", item |-> ""]
NoRet == [kind |-> "none"]

\* the scanner's variables before any scan has been asked for
ScanParked(text) ==
    /\ raw = text
    /\ scan_pc = "start"
    /\ lines = <<>>
    /\ i = 0
    /\ table_started = FALSE
    /\ start_index = 0
    /\ stop_index = 0
    /\ commands = <<>>
    /\ scan_tables = <<>>
    /\ converted_tables = <<>>

\* MDInterpreter.__init__ (self.tables = []); no extract_tables call yet, the
\* arguments at their defaults
ExtParked ==
    /\ output_format = "dataframes"
    /\ reformat = TRUE
    /\ ext_pc = "idle"
    /\ ext_i = 0
    /\ data_objects = <<>>
    /\ self_tables = <<>>
    /\ ext_exc = ""

\* a DataFrame without rows and columns: pd.DataFrame()
EmptyFrame == [index |-> <<>>, columns |-> <<>>, data |-> <<>>]

NoArg == [force |-> FALSE, cmds |-> <<>>, text |-> <<>>]
NoOut == [ok |-> TRUE, exc |-> ""]

\* no normalizer call made
NormParked ==
    /\ norm_frame = EmptyFrame
    /\ norm_op = "none"
    /\ norm_arg = NoArg
    /\ norm_out = NoOut

\* ELNImporter.__init__: no response held, the connection never tested
NoImpCall == [fn |-> "none", allow_list |-> FALSE, return_http_response |-> FALSE]
NoImpRet == [kind |-> "nothing"]

ImpParked ==
    /\ imp_response = [type |-> "none"]
    /\ imp_working = "None"
    /\ imp_pc = "idle"
    /\ imp_call = NoImpCall
    /\ imp_list = <<>>
    /\ imp_input = <<>>
    /\ imp_ret = NoImpRet
    /\ imp_log = <<>>

\* a metadata value: None or a string
MdNone == [kind |-> "None"]
MdStr(text) == [kind |-> "str", val |-> text]

\* the metadata elements ELNResponse.__init__ predefines (three of the
\* sixteen: the id, a plain one, and the experiment type)
PredefinedKeys == {"id", "title", "experimentType"}

NoMdCall == [fn |-> "none", element |-> "", value |-> MdNone]

\* no ELNResponse metadata in play: ELNResponse() without a response
MdParked ==
    /\ md_response = [fields |-> <<>>, metadata |-> "absent"]
    /\ md_metadata = [k \in PredefinedKeys |-> MdNone]
    /\ md_id = MdNone
    /\ md_pc = "ready"
    /\ md_call = NoMdCall
    /\ md_ret = ""
    /\ md_log = <<>>

NoSumCall == [dataset |-> <<>>, desired_parameters |-> <<>>, handle_missing |-> "raise",
              separator |-> <<";", " ">>]

\* DataManager.__init__: self._summary = None, no summary asked for
SumParked ==
    /\ sum_summary = [kind |-> "None"]
    /\ sum_call = NoSumCall
    /\ sum_ret = [kind |-> "nothing"]

InitProj ==
    /\ ScanParked(<<>>)
    /\ ExtParked
    /\ NormParked
    /\ ImpParked
    /\ MdParked
    /\ SumParked
    /\ metadata \in MetadataRecords
    /\ tables \in {[is_none |-> TRUE, list |-> <<>>]}
                  \cup {[is_none |-> FALSE, list |-> ts] : ts \in TableLists}
    /\ log = <<>>
    /\ pc = "idle"
    /\ call = NoCall
    /\ todo = <<>>
    /\ table_dict = EmptyDict
    /\ user_input = <<>>
    /\ ret = NoRet

\* what as_dict / __getitem__ hand back once eln_dict is complete
Returned(c, eln_dict) ==
    IF c.fn = "as_dict"
    THEN [kind |-> "dict", value |-> eln_dict]
    ELSE IF c.item \in DOMAIN eln_dict
         THEN [kind |-> "value", value |-> eln_dict[c.item]]
         ELSE [kind |-> "raise", exc |-> "KeyError", key |-> c.item]

\* entry of as_dict (fn = "as_dict") or __getitem__ (fn = "getitem")
Enter(c) ==
    /\ pc = "idle"
    /\ call' = c
    /\ log' = <<>>
    /\ user_input' = <<>>
    /\ table_dict' = EmptyDict
    /\ UNCHANGED tables
    /\ UNCHANGED outsideProj
    /\ IF tables.is_none
       THEN /\ pc' = "idle"
            /\ todo' = <<>>
            /\ ret' = Returned(c, metadata)
            /\ UNCHANGED metadata
       ELSE /\ pc' = "loop"
            /\ todo' = Elements(tables.list)
            /\ ret' = NoRet
            /\ UNCHANGED metadata

AsDict(duplicate_handling) ==
    Enter([fn |-> "as_dict", duplicate_handling |-> duplicate_handling, item |-> ""])

GetItem(item) ==
    Enter([fn |-> "getitem", duplicate_handling |-> "raise error", item |-> item])

\* the value table_dict[element] holds after the policy handled a duplicate
Resolved(duplicate_handling, existing, new) ==
    IF duplicate_handling = "use last" THEN new ELSE existing

\* the entries logged for a duplicate, before any prompt is answered
DuplicateLog(duplicate_handling, element, existing, new) ==
    <<LogEntry("WRN", "encountered duplicate metadata entry", element)>>
    \o CASE duplicate_handling = "use last" ->
                <<LogEntry("WRN", "value was overwritten", element)>>
         [] duplicate_handling = "use first" ->
                <<LogEntry("PRC", "using first value", element)>>
         [] duplicate_handling = "user selection" ->
                << LogEntry("USR", "please select value to use", element),
                   [cat |-> "USR", msg |-> "0 (current)", key |-> element, val |-> existing],
                   [cat |-> "USR", msg |-> "1 (from table)", key |-> element, val |-> new] >>
         [] OTHER -> <<>>

\* faulty variant of Unwound: the keys collected so far are merged
Unwound_Merged(md, collected) == DictUpdate(md, collected)

\* the ValueError leaves _get_dict_from_tables and its caller before
\* eln_dict.update(...) is reached: self._metadata is as it was
Unwound(md, collected) == md

\* one pass of the body of "for element in table_data"
Element ==
    /\ pc = "loop"
    /\ todo # <<>>
    /\ LET element == Head(todo)[1]
           value == Head(todo)[2]
       IN  IF element \notin DOMAIN table_dict
           THEN /\ table_dict' = DictSet(table_dict, element, value)
                /\ todo' = Tail(todo)
                /\ UNCHANGED <<log, pc, ret, metadata>>
           ELSE /\ log' = log \o DuplicateLog(call.duplicate_handling, element,
                                               table_dict[element], value)
                /\ IF call.duplicate_handling = "raise error"
                   THEN /\ pc' = "idle"
                        /\ todo' = <<>>
                        /\ ret' = [kind |-> "raise", exc |-> "ValueError", key |-> element]
                        /\ metadata' = Unwound(metadata, table_dict)
                        /\ UNCHANGED table_dict
                   ELSE IF call.duplicate_handling = "user selection"
                   THEN /\ pc' = "prompt"
                        /\ UNCHANGED <<todo, table_dict, ret, metadata>>
                   ELSE /\ table_dict' =
                              DictSet(table_dict, element,
                                      Resolved(call.duplicate_handling,
                                               table_dict[element], value))
                        /\ todo' = Tail(todo)
                        /\ UNCHANGED <<pc, ret, metadata>>
    /\ UNCHANGED <<tables, call, user_input>>
    /\ UNCHANGED outsideProj

\* one pass of "while True: user_input = input(message) ..." in ELNDataLogger.input,
\* called with input_type="int", value_range=(0, 1); on acceptance the caller
\* stores possibilities[selection]
Input(s) ==
    /\ pc = "prompt"
    /\ user_input' = s
    /\ IF InputAccepted(s, 0, 1)
       THEN LET element == Head(todo)[1]
                possibilities == <<table_dict[element], Head(todo)[2]>>
                selection == ParseInt(s).val
            IN  /\ log' = Append(log, [cat |-> "PRC", msg |-> "User input",
                                       key |-> element, val |-> selection])
                /\ table_dict' = DictSet(table_dict, element, possibilities[selection + 1])
                /\ todo' = Tail(todo)
                /\ pc' = "loop"
       ELSE UNCHANGED <<log, table_dict, todo, pc>>
    /\ UNCHANGED <<metadata, tables, call, ret>>
    /\ UNCHANGED outsideProj

\* "return table_dict", then in the caller eln_dict.update(...) where
\* eln_dict = self._metadata is the record itself (no copy is made), and the
\* caller's return
Return ==
    /\ pc = "loop"
    /\ todo = <<>>
    /\ metadata' = DictUpdate(metadata, table_dict)
    /\ ret' = Returned(call, metadata')
    /\ pc' = "idle"
    /\ UNCHANGED <<tables, log, call, todo, table_dict, user_input>>
    /\ UNCHANGED outsideProj

NextProj ==
    \/ \E dh \in Policies : AsDict(dh)
    \/ \E item \in Keys : GetItem(item)
    \/ Element
    \/ \E s \in InputTexts : Input(s)
    \/ Return

SpecProj == InitProj /\ [][NextProj]_vars

----------------------------------------------------------------------------
(* MDInterpreter._get_raw_tabular_data (src/eLabAPI.py)                    *)

\* document lines the bodies are put together from
BlankLine == <<>>
RowAB == <<"|", " ", "a", " ", "|", " ", "b", " ", "|">>
Row12 == <<"|", " ", "1", " ", "|", " ", "2", " ", "|">>
DirectiveIgnore == <<".", "i", "g", "n", "o", "r", "e">>
TextLine == <<"t", "x", "t">>

DocLines == {BlankLine, RowAB, Row12, DirectiveIgnore, TextLine}

RECURSIVE Join(_)
Join(ls) ==
    IF ls = <<>> THEN <<>>
    ELSE IF Len(ls) = 1 THEN ls[1]
    ELSE ls[1] \o <<"\n">> \o Join(Tail(ls))

\* the document bodies: up to MaxLines lines, joined by newlines
Documents == {Join(d) : d \in UNION {[1..n -> DocLines] : n \in 0..MaxLines}}

\* s.split(sep) for a one-character sep: one more piece than separators
RECURSIVE SplitOn(_, _)
SplitOn(s, sep) ==
    IF \A j \in 1..Len(s) : s[j] # sep THEN <<s>>
    ELSE LET at == CHOOSE j \in 1..Len(s) :
                       s[j] = sep /\ \A h \in 1..(j - 1) : s[h] # sep
         IN  <<SubSeq(s, 1, at - 1)>> \o SplitOn(SubSeq(s, at + 1, Len(s)), sep)

StartsWith(s, pat) == Len(s) >= Len(pat) /\ SubSeq(s, 1, Len(pat)) = pat

\* s.replace(pat, rep): the non-overlapping occurrences, left to right
RECURSIVE ReplaceAll(_, _, _)
ReplaceAll(s, pat, rep) ==
    IF s = <<>> THEN <<>>
    ELSE IF StartsWith(s, pat)
         THEN rep \o ReplaceAll(SubSeq(s, Len(pat) + 1, Len(s)), pat, rep)
         ELSE <<Head(s)>> \o ReplaceAll(Tail(s), pat, rep)

\* the row csv.reader(..., delimiter=separator) yields for one line (the
\* document lines hold no quote character)
CsvRow(line, separator) == IF line = <<>> THEN <<>> ELSE SplitOn(line, separator)

\* the three replacements of _line_list_to_array (del_chars=True) on one line
DelChars(line, separator) ==
    ReplaceAll(
        ReplaceAll(
            ReplaceAll(line, <<" ", separator, " ">>, <<separator>>),
            <<separator, " ">>, <<>>),
        <<" ", separator>>, <<>>)

\* a csv.reader is an iterator: the rows it will yield and how many of them
\* have been taken already
ReaderRest(reader) == SubSeq(reader.rows, reader.taken + 1, Len(reader.rows))

\* list(reader) inside the print call takes every row
Drained(reader) == [reader EXCEPT !.taken = Len(reader.rows)]

\* _line_list_to_array(table_lines): builds the reader, prints list(reader),
\* returns the reader
LineListToArray(table_lines, separator) ==
    LET reader == [rows |-> [j \in 1..Len(table_lines) |->
                                CsvRow(DelChars(table_lines[j], separator), separator)],
                   taken |-> 0]
    IN  Drained(reader)

Separator == "|"

\* lines[start:stop] with 0-based indices
Slice(ls, start, stop) == SubSeq(ls, start + 1, stop)

\* tables, table_started, start_index, raw.split("\n") and the appended ""
ScanStart ==
    /\ scan_pc = "start"
    /\ scan_pc' = "scan"
    /\ lines' = Append(SplitOn(raw, "\n"), <<>>)
    /\ i' = 0
    /\ table_started' = FALSE
    /\ start_index' = 0
    /\ commands' = << <<>> >>
    /\ scan_tables' = <<>>
    /\ UNCHANGED <<raw, stop_index, converted_tables>>
    /\ UNCHANGED outsideScan

\* faulty variant of ClosedBlock: every block is cut from the top of the text
ClosedBlock_FromTop(ls, start, stop) == Slice(ls, 0, stop)

\* the block a closing line cuts out: lines[start_index:stop_index]
ClosedBlock(ls, start, stop) == Slice(ls, start, stop)

\* faulty variant of NextPending: two lists opened for the next block
NextPending_Doubled(cs) == Append(Append(cs, <<>>), <<>>)

\* commands.append([]): the list for the directives of the next block
NextPending(cs) == Append(cs, <<>>)

\* one pass of "for i, line in enumerate(lines)"
ScanLine ==
    /\ scan_pc = "scan"
    /\ i < Len(lines)
    /\ LET line == lines[i + 1]
       IN  IF Len(line) = 0 /\ ~table_started
           THEN UNCHANGED <<table_started, start_index, stop_index, commands, scan_tables>>
           ELSE IF Len(line) = 0 /\ table_started
           THEN /\ table_started' = FALSE
                /\ stop_index' = i
                /\ commands' = NextPending(commands)
                /\ scan_tables' = Append(scan_tables, ClosedBlock(lines, start_index, stop_index'))
                /\ UNCHANGED start_index
           ELSE IF line[1] = "."
           THEN /\ commands' = [commands EXCEPT ![Len(commands)] = Append(@, Tail(line))]
                /\ UNCHANGED <<table_started, start_index, stop_index, scan_tables>>
           ELSE IF line[1] = Separator /\ ~table_started
           THEN /\ table_started' = TRUE
                /\ start_index' = i
                /\ UNCHANGED <<stop_index, commands, scan_tables>>
           ELSE IF table_started /\ line[1] = Separator
           THEN UNCHANGED <<table_started, start_index, stop_index, commands, scan_tables>>
           ELSE IF table_started
           THEN /\ table_started' = FALSE
                /\ stop_index' = i
                /\ commands' = NextPending(commands)
                /\ scan_tables' = Append(scan_tables, ClosedBlock(lines, start_index, stop_index'))
                /\ UNCHANGED start_index
           ELSE UNCHANGED <<table_started, start_index, stop_index, commands, scan_tables>>
    /\ i' = i + 1
    /\ UNCHANGED <<raw, scan_pc, lines, converted_tables>>
    /\ UNCHANGED outsideScan

\* faulty variant of DropLast: the pending directive list is not cut off
DropLast_Forgotten(cs) == cs

\* cs[:-1]
DropLast(cs) == SubSeq(cs, 1, Len(cs) - 1)

\* after the loop: commands = commands[:-1], every block through
\* _line_list_to_array, return commands, converted_tables
ScanReturn ==
    /\ scan_pc = "scan"
    /\ i = Len(lines)
    /\ commands' = DropLast(commands)
    /\ converted_tables' =
           [t \in 1..Len(scan_tables) |-> LineListToArray(scan_tables[t], Separator)]
    /\ scan_pc' = "done"
    /\ UNCHANGED <<raw, lines, i, table_started, start_index, stop_index, scan_tables>>
    /\ UNCHANGED outsideScan

\* the response side is not in play while a document is scanned
ProjParked ==
    /\ metadata = EmptyDict
    /\ tables = [is_none |-> TRUE, list |-> <<>>]
    /\ log = <<>>
    /\ pc = "idle"
    /\ call = NoCall
    /\ todo = <<>>
    /\ table_dict = EmptyDict
    /\ user_input = <<>>
    /\ ret = NoRet

InitScan ==
    /\ ProjParked
    /\ ExtParked
    /\ NormParked
    /\ ImpParked
    /\ MdParked
    /\ SumParked
    /\ \E text \in Documents : ScanParked(text)

NextScan ==
    \/ ScanStart
    \/ ScanLine
    \/ ScanReturn

SpecScan == InitScan /\ [][NextScan]_vars

----------------------------------------------------------------------------
(* What the claims speak about: the rows of the two-column tables in      *)
(* source order, read directly from self._tables                          *)

RECURSIVE SourceRows(_)
SourceRows(ts) ==
    IF ts = <<>> THEN <<>>
    ELSE (IF Head(ts).width = 2 THEN Head(ts).rows ELSE <<>>) \o SourceRows(Tail(ts))

SourceKeys(ts) == {SourceRows(ts)[n][1] : n \in 1..Len(SourceRows(ts))}

Occurrences(k, rows) == {n \in 1..Len(rows) : rows[n][1] = k}

Least(S) == CHOOSE n \in S : \A j \in S : n <= j
Greatest(S) == CHOOSE n \in S : \A j \in S : j <= n

FirstValue(k, rows) == rows[Least(Occurrences(k, rows))][2]
LastValue(k, rows) == rows[Greatest(Occurrences(k, rows))][2]

\* rows whose key already occurred in an earlier row
RepeatRows(rows) == {j \in 1..Len(rows) : \E n \in 1..(j - 1) : rows[n][1] = rows[j][1]}

LogCount(msg, k) == Cardinality({n \in 1..Len(log) : log[n].msg = msg /\ log[n].key = k})

\* a call on a response that holds tables has run to its end
Completed == pc = "idle" /\ call.fn # "none" /\ ~tables.is_none

CompletedUnder(dh) == Completed /\ call.fn = "as_dict" /\ call.duplicate_handling = dh

----------------------------------------------------------------------------
(* C1: projecting to a flat mapping (as_dict, __getitem__) never changes   *)
(* the metadata record: after any sequence of calls with any policy it    *)
(* has exactly the keys and values it had before, the returned mapping    *)
(* being a separate copy that takes the table keys in its place.           *)
C1_MetadataNeverMutated == [][metadata' = metadata]_vars

(* C2: under "use first" every call completes without raising and the      *)
(* projected value of each key is the value of the key's first occurrence *)
(* among the rows of the two-column tables, in source order.               *)
C2_UseFirstKeepsFirstOccurrence ==
    CompletedUnder("use first") =>
        /\ ret.kind = "dict"
        /\ DOMAIN table_dict = SourceKeys(tables.list)
        /\ \A k \in SourceKeys(tables.list) :
               table_dict[k] = FirstValue(k, SourceRows(tables.list))

(* C3: under "use last" the projected value of each key is the value of    *)
(* the key's last occurrence among the rows of the two-column tables, and *)
(* every overwrite (every row whose key occurred in an earlier row) is    *)
(* logged.                                                                 *)
C3_UseLastTakesLastOccurrenceAndLogs ==
    CompletedUnder("use last") =>
        /\ ret.kind = "dict"
        /\ DOMAIN table_dict = SourceKeys(tables.list)
        /\ \A k \in SourceKeys(tables.list) :
               /\ table_dict[k] = LastValue(k, SourceRows(tables.list))
               /\ LogCount("value was overwritten", k)
                      = Cardinality(Occurrences(k, SourceRows(tables.list))) - 1

(* C4: under "raise error" (as_dict with that policy, and __getitem__) the *)
(* call aborts with a duplicate-key error naming the key of the first row *)
(* whose key is already present, and returns no mapping; it raises that   *)
(* error in no other case.                                                 *)
C4_RaiseErrorAbortsOnFirstRepeat ==
    (Completed /\ call.duplicate_handling = "raise error") =>
        LET rows == SourceRows(tables.list)
        IN  IF RepeatRows(rows) # {}
            THEN /\ ret.kind = "raise"
                 /\ ret.exc = "ValueError"
                 /\ ret.key = rows[Least(RepeatRows(rows))][1]
            ELSE ~(ret.kind = "raise" /\ ret.exc = "ValueError")

(* C5: a key of the metadata record counts as already present: a table row *)
(* with such a key is a conflict, so "use first" keeps the metadata value, *)
(* "use last" takes the table value and "raise error" aborts.              *)
C5_MetadataKeyIsAConflict ==
    [][ (pc = "loop" /\ call.fn = "as_dict") =>
           /\ (todo # <<>> /\ Head(todo)[1] \in DOMAIN metadata
                 /\ call.duplicate_handling = "raise error")
              => (pc' = "idle" /\ ret'.kind = "raise")
           /\ (ret'.kind = "dict" /\ call.duplicate_handling = "use first")
              => \A k \in DOMAIN metadata : ret'.value[k] = metadata[k]
           /\ (ret'.kind = "dict" /\ call.duplicate_handling = "use last")
              => \A k \in DOMAIN table_dict : ret'.value[k] = table_dict[k] ]_vars

(* C6: every row whose key is already present is logged as a conflict and  *)
(* resolved by the policy, also when the earlier occurrence is a row of   *)
(* the same table: one conflict entry per repeated row under "use first"  *)
(* and "use last", the first row's value under "use first", an abort      *)
(* under "raise error".                                                    *)
C6_EveryRepeatedRowIsAConflict ==
    Completed =>
        LET rows == SourceRows(tables.list)
            dh == call.duplicate_handling
        IN  /\ dh \in {"use first", "use last"} =>
                  \A k \in SourceKeys(tables.list) :
                      LogCount("encountered duplicate metadata entry", k)
                          = Cardinality(Occurrences(k, rows)) - 1
            /\ dh = "use first" =>
                  \A k \in DOMAIN table_dict : table_dict[k] = FirstValue(k, rows)
            /\ (dh = "raise error" /\ RepeatRows(rows) # {}) => ret.kind = "raise"

\* every projected key and every logged conflict stems from two-column tables
C7_State ==
    (~tables.is_none /\ call.fn # "none") =>
        /\ DOMAIN table_dict \subseteq SourceKeys(tables.list)
        /\ \A n \in 1..Len(log) :
               log[n].msg = "encountered duplicate metadata entry"
                   => Cardinality(Occurrences(log[n].key, SourceRows(tables.list))) >= 2

(* C7: tables whose column count is not two contribute no key to the      *)
(* projection and cause no conflict (every projected key, and every       *)
(* conflict logged, comes from rows of two-column tables alone), and the  *)
(* table list is left as it was, wide tables included.                     *)
C7_WideTablesSkipped ==
    /\ []C7_State
    /\ [][ /\ tables' = tables
           /\ ~tables.is_none =>
                  DOMAIN metadata' \subseteq (DOMAIN metadata) \cup SourceKeys(tables.list)
       ]_vars

\* a projection has returned for a list that holds a wide table next to a
\* two-column table, and a key found only in the wide table is not projected
C7_Witness ==
    /\ Completed
    /\ ret.kind = "dict"
    /\ \E m, n \in 1..Len(tables.list) :
           /\ tables.list[m].width = 3
           /\ tables.list[n].width = 2
           /\ tables.list[n].rows # <<>>
    /\ "a" \notin SourceKeys(tables.list)
    /\ "a" \notin DOMAIN table_dict

\* the typed lines that int() reads as 0 and as 1
ZeroTexts == { <<"0">> }
OneTexts == { <<"1">>, <<" ", "1">>, <<"+", "1">> }

\* the prompt itself: what a step taken at a conflict the loop has detected,
\* or at the prompt, may do
SelectionGate ==
    /\ (pc = "loop" /\ call.duplicate_handling = "user selection"
          /\ todo # <<>> /\ Head(todo)[1] \in DOMAIN table_dict)
       => (pc' = "prompt" /\ todo' = todo /\ table_dict' = table_dict)
    /\ pc = "prompt" =>
           LET element == Head(todo)[1]
               new == Head(todo)[2]
           IN  /\ call.duplicate_handling = "user selection"
               /\ user_input' \notin (ZeroTexts \cup OneTexts)
                  => (pc' = "prompt" /\ todo' = todo /\ table_dict' = table_dict
                        /\ ret' = ret /\ metadata' = metadata)
               /\ user_input' \in ZeroTexts
                  => (pc' = "loop" /\ todo' = Tail(todo) /\ table_dict' = table_dict)
               /\ user_input' \in OneTexts
                  => (pc' = "loop" /\ todo' = Tail(todo)
                        /\ table_dict' = DictSet(table_dict, element, new))

\* a finished projection has taken one selection for every row whose key
\* occurred in an earlier row
SelectionForEveryRepeat ==
    CompletedUnder("user selection") =>
        \A k \in SourceKeys(tables.list) :
            LogCount("User input", k)
                = Cardinality(Occurrences(k, SourceRows(tables.list))) - 1

(* C8: under "user selection" every conflict (every row whose key is       *)
(* already present) suspends the projection at the prompt, and the        *)
(* projection goes on only once 0 or 1 has been typed: a line that is not *)
(* the integer 0 or 1 is rejected and the prompt repeats with nothing     *)
(* changed; 0 keeps the existing value and 1 sets the new value of that   *)
(* key.                                                                    *)
C8_SelectionOnEveryConflict ==
    /\ []SelectionForEveryRepeat
    /\ [][SelectionGate]_vars

\* the prompt alone, for the conflicts the loop detects (holds)
PromptGateAlone == [][SelectionGate]_vars

----------------------------------------------------------------------------
(* The scanner claims                                                      *)

IsTableRow(line) == line # <<>> /\ line[1] = "|"
IsDirective(line) == line # <<>> /\ line[1] = "."

\* the lines of the document, as a reader of the text sees them
DocumentLines == SplitOn(raw, "\n")

\* how many table rows end the document
RECURSIVE TrailingRows(_)
TrailingRows(ls) ==
    IF ls = <<>> \/ ~IsTableRow(ls[Len(ls)]) THEN 0
    ELSE 1 + TrailingRows(SubSeq(ls, 1, Len(ls) - 1))

\* the cells of a table row: split on the separator, outer separators and
\* surrounding blanks removed
RowCells(line) ==
    LET parts == SplitOn(line, "|")
    IN  [n \in 1..(Len(parts) - 2) |-> RStrip(LStrip(parts[n + 1]))]

(* C9: when the text ends inside a table (its last line is a table row,    *)
(* no final blank line) the scanner still emits that table: the last      *)
(* block it returns gives, to whoever reads it, every row of the trailing *)
(* table, the last line included.                                          *)
C9_TrailingTableEmitted ==
    (scan_pc = "done" /\ TrailingRows(DocumentLines) > 0) =>
        LET ls == DocumentLines
            run == TrailingRows(ls)
            count == Len(converted_tables)
        IN  /\ count >= 1
            /\ LET got == ReaderRest(converted_tables[count])
               IN  /\ Len(got) >= run
                   /\ \A n \in 1..run :
                          got[Len(got) - run + n] = RowCells(ls[Len(ls) - run + n])

(* C10: a text with directive lines but no table row yields zero table     *)
(* blocks and zero directive lists; the directives are attached to        *)
(* nothing.                                                                *)
C10_DirectivesWithoutTable ==
    (\A n \in 1..Len(DocumentLines) : ~IsTableRow(DocumentLines[n])) =>
        /\ ~table_started
        /\ scan_tables = <<>>
        /\ scan_pc = "done" => (commands = <<>> /\ converted_tables = <<>>)

\* a scan has returned for a text that holds a directive and no table row
C10_Witness ==
    /\ scan_pc = "done"
    /\ \E n \in 1..Len(DocumentLines) : IsDirective(DocumentLines[n])
    /\ \A n \in 1..Len(DocumentLines) : ~IsTableRow(DocumentLines[n])
    /\ commands = <<>>
    /\ scan_tables = <<>>

----------------------------------------------------------------------------
(* Directive attachment and block ranges                                   *)

\* the directive texts (leading "." removed) among some lines, in order
RECURSIVE DirectivesOf(_)
DirectivesOf(ls) ==
    IF ls = <<>> THEN <<>>
    ELSE (IF IsDirective(Head(ls)) THEN <<Tail(Head(ls))>> ELSE <<>>)
         \o DirectivesOf(Tail(ls))

RECURSIVE Ascending(_)
Ascending(S) == IF S = {} THEN <<>> ELSE <<Least(S)>> \o Ascending(S \ {Least(S)})

\* first and last lines (1-based) of the maximal runs of consecutive table rows
RunStarts(ls) ==
    Ascending({n \in 1..Len(ls) : IsTableRow(ls[n]) /\ (n = 1 \/ ~IsTableRow(ls[n - 1]))})
RunEnds(ls) ==
    Ascending({n \in 1..Len(ls) :
                  IsTableRow(ls[n]) /\ (n = Len(ls) \/ ~IsTableRow(ls[n + 1]))})

MaximalRuns(ls) ==
    [k \in 1..Len(RunStarts(ls)) |-> SubSeq(ls, RunStarts(ls)[k], RunEnds(ls)[k])]

\* a step that emits a block
EmitsBlock == Len(scan_tables') = Len(scan_tables) + 1

\* the block emitted by a step ranges over lines[start_index:stop_index'];
\* the block before it ended at the old stop_index (0: start of the document)
AttachedAtEmit ==
    EmitsBlock =>
        /\ Len(commands') = Len(scan_tables') + 1
        /\ commands'[Len(scan_tables')]
               = DirectivesOf(Slice(lines, stop_index, start_index))
        /\ commands'[Len(commands')] = <<>>

(* C11: directive attachment is positional: the list attached to the k-th  *)
(* block is exactly the directive lines, leading "." removed and in       *)
(* source order, between the end of block k-1 (or the start of the        *)
(* document) and the first row of block k; the pending list is empty      *)
(* again once it has been attached, and every returned block has its      *)
(* list.                                                                   *)
C11_PositionalAttachment ==
    /\ [](scan_pc = "done" => Len(commands) = Len(scan_tables))
    /\ [][AttachedAtEmit]_vars

\* a line that is not a table row, met inside a table, closes the block there
ClosesAtNonRow ==
    (scan_pc = "scan" /\ i < Len(lines) /\ table_started /\ ~IsTableRow(lines[i + 1]))
        => /\ ~table_started'
           /\ scan_tables' = Append(scan_tables, Slice(lines, start_index, i))

OnlyTableRows ==
    \A k \in 1..Len(scan_tables) :
        \A n \in 1..Len(scan_tables[k]) : IsTableRow(scan_tables[k][n])

(* C12: every emitted block is a maximal run of consecutive table-row      *)
(* lines: each of its lines starts with the separator, and a non-blank    *)
(* line that is not a table row (a directive line included) met inside a  *)
(* table closes the block at that line and is not part of it.              *)
C12_BlocksAreMaximalRowRuns ==
    /\ []OnlyTableRows
    /\ [](scan_pc = "done" => scan_tables = MaximalRuns(DocumentLines))
    /\ [][ClosesAtNonRow]_vars

RangesInOrder ==
    /\ EmitsBlock =>
           /\ start_index < stop_index'
           /\ scan_tables' = Append(scan_tables, Slice(lines, start_index, stop_index'))
    /\ (scan_pc = "scan" /\ table_started' /\ ~table_started) =>
           /\ stop_index <= start_index'
           /\ scan_tables # <<>> => stop_index < start_index'

(* C13: blocks are emitted in source order and do not overlap: the line    *)
(* range of a block ends strictly before the range of the next block      *)
(* begins, and every block is non-empty.                                   *)
C13_BlocksOrderedDisjoint ==
    /\ [](\A k \in 1..Len(scan_tables) : scan_tables[k] # <<>>)
    /\ [][RangesInOrder]_vars

\* a scan has returned two blocks
C13_Witness == scan_pc = "done" /\ Len(scan_tables) = 2

----------------------------------------------------------------------------
(* MDInterpreter.extract_tables (src/eLabAPI.py): the scan, then the        *)
(* directives of every block applied to it                                 *)

\* the cells of a table: a text, a number (in tenths), or a missing value
\* (None / NaN)
Text(t) == [kind |-> "text", text |-> t, num |-> 0]
Number(v) == [kind |-> "num", text |-> <<>>, num |-> v]
Missing == [kind |-> "missing", text |-> <<>>, num |-> 0]

\* axis labels of a DataFrame: the positions 0, 1, ... of a default axis, or
\* the cells put there by set_axis
Pos(n) == [kind |-> "pos", pos |-> n, cell |-> Missing]
Lab(c) == [kind |-> "cell", pos |-> 0, cell |-> c]

RangeLabels(n) == [k \in 1..n |-> Pos(k - 1)]

\* the length of the longest row
RowWidth(rows) ==
    IF rows = <<>> THEN 0
    ELSE CHOOSE w \in {Len(rows[k]) : k \in 1..Len(rows)} :
             \A k \in 1..Len(rows) : Len(rows[k]) <= w

\* pd.DataFrame.from_records(rows): default labels on both axes, the cells
\* as they come, short rows filled up with None
FromRecords(rows) ==
    [index |-> RangeLabels(Len(rows)),
     columns |-> RangeLabels(RowWidth(rows)),
     data |-> [k \in 1..Len(rows) |->
                  [c \in 1..RowWidth(rows) |->
                      IF c <= Len(rows[k]) THEN Text(rows[k][c]) ELSE Missing]]]

\* s with the entries at the positions in drop left out
RECURSIVE Without(_, _)
Without(sq, drop) ==
    IF sq = <<>> THEN <<>>
    ELSE Without(SubSeq(sq, 1, Len(sq) - 1), drop)
         \o (IF Len(sq) \in drop THEN <<>> ELSE <<sq[Len(sq)]>>)

\* dataframe.drop(label) along the rows: KeyError when no row has the label
DropRow(frame, label) ==
    LET hit == {k \in 1..Len(frame.index) : frame.index[k] = label}
    IN  IF hit = {} THEN [ok |-> FALSE, exc |-> "KeyError", frame |-> frame]
        ELSE [ok |-> TRUE, exc |-> "",
              frame |-> [frame EXCEPT !.index = Without(frame.index, hit),
                                      !.data = Without(frame.data, hit)]]

\* the objects a table variable of extract_tables can hold
ReaderObj(r) == [type |-> "reader", reader |-> r]
FrameObj(f) == [type |-> "frame", frame |-> f]
NoneObj == [type |-> "none"]

Ignore == <<"i", "g", "n", "o", "r", "e">>
TitlePrefix == <<"t", "i", "t", "l", "e", "\\", "=">>

\* _interpret_inline_commands(commands, table): "type(table) is list[list]"
\* holds for no object (list[list] is a generic alias, no object has it as
\* its type), so only a DataFrame is looked at; the title of a title command
\* is bound to a local name and dropped
InterpretInlineCommands(cmds, table) ==
    IF table.type # "frame" THEN table
    ELSE IF \E n \in 1..Len(cmds) : cmds[n] = Ignore THEN NoneObj
    ELSE table

\* str.lower() on the letters the header cells are written with
LowerChar(c) ==
    CASE c = "P" -> "p" [] c = "R" -> "r" [] c = "O" -> "o" [] c = "B" -> "b"
      [] c = "E" -> "e" [] c = "N" -> "n" [] c = "S" -> "s" [] c = "A" -> "a"
      [] c = "M" -> "m" [] c = "L" -> "l" [] OTHER -> c

Lower(t) == [n \in 1..Len(t) |-> LowerChar(t[n])]

IndexHeaders ==
    { <<"p", "r", "o", "b", "e">>, <<"s", "a", "m", "p", "l", "e">>, <<"n", "r", ".">> }

\* column c (1-based) of a frame, top to bottom
ColumnCells(frame, c) == [k \in 1..Len(frame.data) |-> frame.data[k][c]]

\* header = dataframe[dataframe.columns[0]].values.tolist();
\* dataframe.set_axis(labels=header, axis=0);
\* dataframe.drop(dataframe.columns[0], axis="columns")
PromoteIndex(frame) ==
    [index |-> [k \in 1..Len(frame.data) |-> Lab(frame.data[k][1])],
     columns |-> Tail(frame.columns),
     data |-> [k \in 1..Len(frame.data) |-> Tail(frame.data[k])]]

\* x.str.replace(',', '.') on one cell; a missing cell stays missing
CommaToPoint(cell) ==
    IF cell.kind = "text" THEN Text(ReplaceAll(cell.text, <<",">>, <<".">>)) ELSE cell

\* _convert_comma_to_point(dataframe, secure=False), then convert_dtypes(),
\* which gives the columns of strings the string dtype and changes no value
ConvertCommaToPoint(frame) ==
    [frame EXCEPT !.data = [k \in 1..Len(frame.data) |->
                               [c \in 1..Len(frame.data[k]) |->
                                   CommaToPoint(frame.data[k][c])]]]

Failed(exc, frame) == [ok |-> FALSE, exc |-> exc, frame |-> frame]
Done(frame) == [ok |-> TRUE, exc |-> "", frame |-> frame]

\* MDInterpreter._reformat_dataframe(dataframe) for a DataFrame
ReformatDataframe(frame) ==
    IF Len(frame.columns) = 2
    THEN Done(ConvertCommaToPoint(PromoteIndex(frame)))
    ELSE IF frame.data = <<>> THEN Failed("IndexError", frame)
    ELSE LET headed == [frame EXCEPT !.columns =
                           [c \in 1..Len(frame.columns) |-> Lab(frame.data[1][c])]]
             dropped == DropRow(headed, Pos(0))
         IN  IF ~dropped.ok THEN dropped
             ELSE IF dropped.frame.columns = <<>> THEN Failed("IndexError", frame)
             ELSE IF dropped.frame.columns[1].cell.kind # "text"
             THEN Failed("AttributeError", frame)
             ELSE IF Lower(dropped.frame.columns[1].cell.text) \in IndexHeaders
             THEN Done(ConvertCommaToPoint(PromoteIndex(dropped.frame)))
             ELSE Done(ConvertCommaToPoint(dropped.frame))

OutputFormats == {"dataframes", "list"}

\* extract_tables(output_format, reformat) is entered; it first asks for
\* commands, tables = self._get_raw_tabular_data()
ExtractTables(of, rf) ==
    /\ ext_pc = "idle"
    /\ scan_pc = "start"
    /\ output_format' = of
    /\ reformat' = rf
    /\ ext_pc' = "call"
    /\ ext_i' = 0
    /\ data_objects' = <<>>
    /\ UNCHANGED <<self_tables, ext_exc>>
    /\ UNCHANGED scanVars
    /\ UNCHANGED outsideExtract

\* an exception leaves extract_tables
Raise(exc) ==
    /\ ext_pc' = "raised"
    /\ ext_exc' = exc
    /\ UNCHANGED <<ext_i, data_objects>>

\* the loop goes on with the next table
Appended(objs) ==
    /\ data_objects' = data_objects \o objs
    /\ ext_i' = ext_i + 1
    /\ UNCHANGED <<ext_pc, ext_exc>>

\* one pass of "for i, table in enumerate(tables)" in the branch of the
\* output format
ExtractTable ==
    /\ ext_pc = "call"
    /\ scan_pc = "done"
    /\ ext_i < Len(converted_tables)
    /\ LET table == converted_tables[ext_i + 1]
           cmds == commands[ext_i + 1]
       IN  IF output_format = "list"
           THEN LET converted_table == InterpretInlineCommands(cmds, ReaderObj(table))
                IN  /\ Appended(IF converted_table.type # "none"
                                THEN <<converted_table>> ELSE <<>>)
                    /\ UNCHANGED converted_tables
           ELSE LET dropped == DropRow(FromRecords(ReaderRest(table)), Pos(1))
                    converted_table ==
                        InterpretInlineCommands(cmds, FrameObj(dropped.frame))
                    reformatted == ReformatDataframe(converted_table.frame)
                IN  /\ converted_tables' =
                           [converted_tables EXCEPT ![ext_i + 1] = Drained(@)]
                    /\ IF ~dropped.ok THEN Raise(dropped.exc)
                       ELSE IF ~reformat THEN Appended(<<converted_table>>)
                       ELSE IF converted_table.type = "none" THEN Raise("AttributeError")
                       ELSE IF ~reformatted.ok THEN Raise(reformatted.exc)
                       ELSE Appended(<<FrameObj(reformatted.frame)>>)
    /\ UNCHANGED <<output_format, reformat, self_tables>>
    /\ UNCHANGED <<raw, scan_pc, lines, i, table_started, start_index, stop_index,
                   commands, scan_tables>>
    /\ UNCHANGED outsideExtract

\* self.tables = data_objects; return tables
ExtractReturn ==
    /\ ext_pc = "call"
    /\ scan_pc = "done"
    /\ ext_i = Len(converted_tables)
    /\ self_tables' = data_objects
    /\ ext_pc' = "done"
    /\ UNCHANGED <<output_format, reformat, ext_i, data_objects, ext_exc>>
    /\ UNCHANGED scanVars
    /\ UNCHANGED outsideExtract

NextExtract ==
    \/ \E of \in OutputFormats, rf \in BOOLEAN : ExtractTables(of, rf)
    \/ (ext_pc = "call" /\ NextScan)
    \/ ExtractTable
    \/ ExtractReturn

SpecExtract == InitScan /\ [][NextExtract]_vars

\* the blocks whose directive list holds "ignore" / does not hold it
Ignored(k) == \E n \in 1..Len(commands[k]) : commands[k][n] = Ignore

ExtractEnded == ext_pc \in {"done", "raised"}

(* C14: a table whose directive list contains "ignore" is absent from the  *)
(* extracted table list, in the list and in the dataframes output format, *)
(* and the other tables of the document are still extracted: a finished   *)
(* extraction has raised nothing and holds one table for every block      *)
(* that is not ignored.                                                    *)
C14_IgnoredTablesAbsent ==
    ExtractEnded =>
        /\ ext_pc = "done"
        /\ Len(self_tables)
               = Cardinality({k \in 1..Len(commands) : ~Ignored(k)})
        /\ \A n \in 1..Len(self_tables) : self_tables[n].type # "none"

----------------------------------------------------------------------------
(* Numeric conversion: float(), pd.to_numeric on one cell                  *)

FloatDigits == {"0", "1", "2", "5"}

FloatDigitVal(c) == CASE c = "0" -> 0 [] c = "1" -> 1 [] c = "2" -> 2 [] c = "5" -> 5

RECURSIVE FloatDecVal(_)
FloatDecVal(ds) ==
    IF ds = <<>> THEN 0
    ELSE 10 * FloatDecVal(SubSeq(ds, 1, Len(ds) - 1)) + FloatDigitVal(ds[Len(ds)])

\* float(t) for texts written with digits, a sign and a decimal point (no
\* exponent, no "inf"/"nan", at most one digit after the point): surrounding
\* blanks stripped, an optional sign, digits with at most one point and at
\* least one digit; the value is given in tenths
ParseFloat(t) ==
    LET stripped == RStrip(LStrip(t))
        signed == stripped # <<>> /\ stripped[1] \in {"-", "+"}
        body == IF signed THEN Tail(stripped) ELSE stripped
        points == {n \in 1..Len(body) : body[n] = "."}
        at == IF points = {} THEN Len(body) + 1 ELSE Least(points)
        whole == SubSeq(body, 1, at - 1)
        frac == SubSeq(body, at + 1, Len(body))
        tenths == 10 * FloatDecVal(whole) + (IF frac = <<>> THEN 0 ELSE FloatDigitVal(frac[1]))
    IN  IF \/ Cardinality(points) > 1
           \/ whole \o frac = <<>>
           \/ \E n \in 1..Len(whole) : whole[n] \notin FloatDigits
           \/ \E n \in 1..Len(frac) : frac[n] \notin FloatDigits
        THEN [ok |-> FALSE, val |-> 0]
        ELSE [ok |-> TRUE, val |-> IF signed /\ stripped[1] = "-" THEN 0 - tenths ELSE tenths]

\* the cell parses: float(item) / pd.to_numeric(item, errors="raise") raise nothing
Parses(cell) == cell.kind = "num" \/ (cell.kind = "text" /\ ParseFloat(cell.text).ok)

\* the number a cell that parses is turned into
AsNumber(cell) == IF cell.kind = "num" THEN cell ELSE Number(ParseFloat(cell.text).val)

\* faulty variant of TryFloatConversion: what does not parse is always dropped
TryFloatConversion_AlwaysNone(string, strict) ==
    IF ParseFloat(ReplaceAll(string, <<",">>, <<".">>)).ok
    THEN Number(ParseFloat(ReplaceAll(string, <<",">>, <<".">>)).val)
    ELSE Missing

\* try_float_conversion(string, allow_comma=True, strict): the argument is a str
TryFloatConversion(string, strict) ==
    LET replaced == ReplaceAll(string, <<",">>, <<".">>)
    IN  IF ParseFloat(replaced).ok THEN Number(ParseFloat(replaced).val)
        ELSE IF strict THEN Missing
        ELSE Text(string)

\* the column of _convert_pd_to_numeric: the whole column through
\* pd.to_numeric(errors="raise"); on ValueError the column through
\* errors="coerce" if force, otherwise the column as it was
ConvertColumn(cells, force) ==
    IF \A k \in 1..Len(cells) : Parses(cells[k])
    THEN [k \in 1..Len(cells) |-> AsNumber(cells[k])]
    ELSE IF force
    THEN [k \in 1..Len(cells) |-> IF Parses(cells[k]) THEN AsNumber(cells[k]) ELSE Missing]
    ELSE cells

\* TabularData._convert_pd_to_numeric(force)
ConvertPdToNumeric(frame, force) ==
    [frame EXCEPT !.data =
        [k \in 1..Len(frame.data) |->
            [c \in 1..Len(frame.columns) |->
                ConvertColumn(ColumnCells(frame, c), force)[k]]]]

\* TabularData._convert_list_to_numeric(force, null_value=None) on the list
\* of lists that to_list() gives: item by item, float(item), on ValueError
\* null_value if force, otherwise the item
ConvertListToNumeric(data, force) ==
    [c \in 1..Len(data) |->
        [k \in 1..Len(data[c]) |->
            IF Parses(data[c][k]) THEN AsNumber(data[c][k])
            ELSE IF force THEN Missing
            ELSE data[c][k]]]

\* TabularData.to_list(): the list of the columns
ToList(frame) == [c \in 1..Len(frame.columns) |-> ColumnCells(frame, c)]

----------------------------------------------------------------------------
(* ELNResponse._reformat_tables, ELNResponse._interpret_header             *)
(* (src/elab_API.py)                                                       *)

NoTitle == [is_none |-> TRUE, text |-> <<>>]
Title(t) == [is_none |-> FALSE, text |-> t]

\* "pat in s"
Contains(s, pat) ==
    \E n \in 0..(Len(s) - Len(pat)) : SubSeq(s, n + 1, n + Len(pat)) = pat

\* the title _interpret_header(command, table) leaves on a table of the given
\* title
InterpretHeader(command, title) ==
    IF Contains(command, <<"d", "o", "o">>) THEN title
    ELSE Title(RStrip(LStrip(Tail(command))))

\* reset_index(drop=True)
ResetIndex(frame) == [frame EXCEPT !.index = RangeLabels(Len(frame.data))]

\* data().drop(0), then reset_index(drop=True)
DropFirst(frame) == ResetIndex(DropRow(frame, Pos(0)).frame)

TabularData(frame, title) == [ok |-> TRUE, exc |-> "", data |-> frame, title |-> title]
Raised(exc) == [ok |-> FALSE, exc |-> exc]

\* _reformat_tables(tables, force_numeric) for one DataFrame with default
\* labels, as pd.read_html hands it over
ReformatTables(frame, force_numeric) ==
    IF frame.data = <<>> \/ frame.columns = <<>> THEN Raised("IndexError")
    ELSE LET potential_header_command == frame.data[1][1]
             is_str == potential_header_command.kind = "text"
         IN  IF is_str /\ potential_header_command.text = <<>> THEN Raised("IndexError")
             ELSE LET is_command == is_str /\ potential_header_command.text[1] = "."
                      data == IF is_command THEN DropFirst(frame) ELSE frame
                      title == IF is_command
                               THEN InterpretHeader(potential_header_command.text, NoTitle)
                               ELSE NoTitle
                  IN  IF Len(frame.columns) = 2 THEN TabularData(data, title)
                      ELSE IF data.data = <<>> THEN Raised("IndexError")
                      ELSE LET headed == [data EXCEPT !.columns =
                                             [c \in 1..Len(data.columns) |->
                                                 Lab(data.data[1][c])]]
                           IN  TabularData(
                                   ConvertPdToNumeric(DropFirst(headed), force_numeric),
                                   title)

----------------------------------------------------------------------------
(* One call of a normalizer function on a grid                             *)

MaxGridRows == 3    \* rows of a grid, a header or command row included

\* cell texts
CellK == <<"k">>
CellProbe == <<"P", "r", "o", "b", "e">>
CellTitleDemo == <<".", "t", "i", "t", "l", "e", "=", "d", "e", "m", "o">>
CellOne == <<"1">>
CellOneAndHalf == <<"1", ",", "5">>
CellX == <<"x">>

FirstCells == {CellK, CellProbe, CellTitleDemo}   \* column 0 of the first row
KeyCells == {CellK, CellProbe}                    \* column 0 of the other rows
ValueCells == {CellOne, CellOneAndHalf, CellX}    \* column 1
LastCells == {CellOne, CellX}                     \* column 2

GridRows(width, first) ==
    IF width = 2
    THEN {<<f, v>> : f \in first, v \in ValueCells}
    ELSE {<<f, v, l>> : f \in first, v \in ValueCells, l \in LastCells}

\* the rectangular grids of two and of three columns
Grids ==
    UNION {
        {<<top>> \o rest : top \in GridRows(width, FirstCells),
                           rest \in [1..(n - 1) -> GridRows(width, KeyCells)]} :
        width \in {2, 3}, n \in 1..MaxGridRows}

\* directive lists handed to _interpret_inline_commands
TitleDemo == <<"t", "i", "t", "l", "e", "=", "d", "e", "m", "o">>
TitleDemoEscaped == TitlePrefix \o <<"d", "e", "m", "o">>
CommandLists == { <<>>, <<TitleDemo>>, <<TitleDemoEscaped>>, <<Ignore, TitleDemo>> }

InitNorm ==
    /\ ProjParked
    /\ ExtParked
    /\ ScanParked(<<>>)
    /\ ImpParked
    /\ MdParked
    /\ SumParked
    /\ norm_frame \in {FromRecords(g) : g \in Grids}
    /\ norm_op = "none"
    /\ norm_arg = NoArg
    /\ norm_out = NoOut

\* a function is called once, with its arguments, and hands back out
Call(op, arg, out) ==
    /\ norm_op = "none"
    /\ norm_op' = op
    /\ norm_arg' = arg
    /\ norm_out' = out
    /\ UNCHANGED norm_frame
    /\ UNCHANGED outsideNorm

\* ELNResponse._reformat_tables(table, force_numeric=force)
CallReformatTables(force) ==
    Call("_reformat_tables", [NoArg EXCEPT !.force = force],
         ReformatTables(norm_frame, force))

\* MDInterpreter._reformat_dataframe(dataframe)
CallReformatDataframe ==
    Call("_reformat_dataframe", NoArg, ReformatDataframe(norm_frame))

\* TabularData(data=dataframe).convert_to_numeric(force=force)
CallConvertPd(force) ==
    Call("convert_to_numeric", [NoArg EXCEPT !.force = force],
         [ok |-> TRUE, exc |-> "", data |-> ConvertPdToNumeric(norm_frame, force)])

\* table.convert_to_list(), then table.convert_to_numeric(force=force)
CallConvertList(force) ==
    Call("convert_to_numeric (list)", [NoArg EXCEPT !.force = force],
         [ok |-> TRUE, exc |-> "",
          data |-> ConvertListToNumeric(ToList(norm_frame), force)])

\* try_float_conversion(string, strict=strict) on the text of a cell
CallTryFloat(text, strict) ==
    /\ \E k \in 1..Len(norm_frame.data) :
           \E c \in 1..Len(norm_frame.data[k]) : norm_frame.data[k][c] = Text(text)
    /\ Call("try_float_conversion", [NoArg EXCEPT !.force = strict, !.text = text],
            [ok |-> TRUE, exc |-> "", cell |-> TryFloatConversion(text, strict)])

\* MDInterpreter._interpret_inline_commands(commands, dataframe): the object
\* handed back; a DataFrame carries no title
CallInterpretInline(cmds) ==
    Call("_interpret_inline_commands", [NoArg EXCEPT !.cmds = cmds],
         [ok |-> TRUE, exc |-> "",
          table |-> InterpretInlineCommands(cmds, FrameObj(norm_frame)),
          title |-> NoTitle])

\* _reformat_tables(tables, force_numeric) for a list: every DataFrame of the
\* list in turn; an exception of one of them leaves the loop and the call
RECURSIVE ReformatTablesList(_, _)
ReformatTablesList(frames, force_numeric) ==
    IF frames = <<>> THEN [ok |-> TRUE, exc |-> "", tables |-> <<>>]
    ELSE LET before == ReformatTablesList(SubSeq(frames, 1, Len(frames) - 1), force_numeric)
             last == ReformatTables(frames[Len(frames)], force_numeric)
         IN  IF ~before.ok THEN before
             ELSE IF ~last.ok THEN Raised(last.exc)
             ELSE [before EXCEPT !.tables = Append(@, last)]

\* a key/value DataFrame of one row that follows the grid in a document
PlainFrame == FromRecords(<< <<CellK, CellOne>> >>)

\* ELNResponse._reformat_tables([dataframe, PlainFrame], force_numeric=force)
CallReformatTablesList(force) ==
    Call("_reformat_tables (list)", [NoArg EXCEPT !.force = force],
         ReformatTablesList(<<norm_frame, PlainFrame>>, force))

NextNorm ==
    \/ \E force \in BOOLEAN : CallReformatTables(force)
    \/ \E force \in BOOLEAN : CallReformatTablesList(force)
    \/ CallReformatDataframe
    \/ \E force \in BOOLEAN : CallConvertPd(force)
    \/ \E force \in BOOLEAN : CallConvertList(force)
    \/ \E text \in FirstCells \cup ValueCells, strict \in BOOLEAN : CallTryFloat(text, strict)
    \/ \E cmds \in CommandLists : CallInterpretInline(cmds)

SpecNorm == InitNorm /\ [][NextNorm]_vars

----------------------------------------------------------------------------
(* The directive and normalizer claims                                     *)

Demo == <<"d", "e", "m", "o">>

\* the grid the call was made on, as rows of cell texts
GridTexts ==
    [k \in 1..Len(norm_frame.data) |->
        [c \in 1..Len(norm_frame.data[k]) |-> norm_frame.data[k][c].text]]

GridWidth == Len(norm_frame.columns)

\* the table carries the directive ".title=demo" (its first cell) / the
\* directive list holds "title=demo"
HasTitleDirective ==
    \/ norm_op = "_reformat_tables" /\ GridTexts[1][1] = CellTitleDemo
    \/ /\ norm_op = "_interpret_inline_commands"
       /\ \E n \in 1..Len(norm_arg.cmds) : norm_arg.cmds[n] = TitleDemo

\* the call handed back a table
HandedBackTable ==
    \/ norm_op = "_reformat_tables" /\ norm_out.ok
    \/ norm_op = "_interpret_inline_commands" /\ norm_out.table.type = "frame"

(* C15: a directive title=<text> attached to a table sets the title of the *)
(* table to exactly <text>; a table with no title directive keeps its     *)
(* title unset.                                                            *)
C15_TitleDirectiveSetsTitle ==
    HandedBackTable =>
        norm_out.title = (IF HasTitleDirective THEN Title(Demo) ELSE NoTitle)

\* a normalizer was called: _reformat_tables or _reformat_dataframe
Normalized == norm_op \in {"_reformat_tables", "_reformat_dataframe"}

\* the DataFrame the normalizer handed back
OutFrame == IF norm_op = "_reformat_tables" THEN norm_out.data ELSE norm_out.frame

\* column c of the grid, from row "from" downwards, as axis labels
LabelsBelow(from, c) ==
    [k \in 1..(Len(norm_frame.data) - from + 1) |-> Lab(norm_frame.data[k + from - 1][c])]

DefaultLabels(labels) == \A n \in 1..Len(labels) : labels[n].kind = "pos"

(* C16: for every rectangular two-column grid, normalization promotes      *)
(* column 0 to the row index: the index labels are the values of column 0 *)
(* in their order, column 0 is gone from the data (one data column, as    *)
(* many rows as before), and no row is made a header.                      *)
C16_TwoColumnIndexPromotion ==
    (Normalized /\ GridWidth = 2) =>
        /\ norm_out.ok
        /\ OutFrame.index = LabelsBelow(1, 1)
        /\ Len(OutFrame.data) = Len(norm_frame.data)
        /\ \A k \in 1..Len(OutFrame.data) : Len(OutFrame.data[k]) = 1
        /\ Len(OutFrame.columns) = 1
        /\ DefaultLabels(OutFrame.columns)

\* the first header of the grid is one of probe, sample, nr. in any case
HeaderNamesIndex ==
    norm_frame.data[1][1].kind = "text" /\ Lower(norm_frame.data[1][1].text) \in IndexHeaders

(* C17: for every rectangular grid of three or more columns, row 0 becomes *)
(* the column headers and leaves the data; the first column is promoted   *)
(* to the row index as well (leaving data and headers) if and only if its *)
(* header, compared without regard to case, is probe, sample or nr.        *)
C17_HeaderAndIndexPromotion ==
    (Normalized /\ GridWidth >= 3) =>
        /\ norm_out.ok
        /\ Len(OutFrame.data) = Len(norm_frame.data) - 1
        /\ IF HeaderNamesIndex
           THEN /\ OutFrame.index = LabelsBelow(2, 1)
                /\ OutFrame.columns =
                       [c \in 1..(GridWidth - 1) |-> Lab(norm_frame.data[1][c + 1])]
                /\ \A k \in 1..Len(OutFrame.data) : Len(OutFrame.data[k]) = GridWidth - 1
           ELSE /\ DefaultLabels(OutFrame.index)
                /\ OutFrame.columns = [c \in 1..GridWidth |-> Lab(norm_frame.data[1][c])]
                /\ \A k \in 1..Len(OutFrame.data) : Len(OutFrame.data[k]) = GridWidth

\* a numeric conversion of the whole table was called
Converted == norm_op \in {"convert_to_numeric", "convert_to_numeric (list)"}

\* column c of the converted table, top to bottom
OutColumn(c) ==
    IF norm_op = "convert_to_numeric" THEN ColumnCells(norm_out.data, c)
    ELSE norm_out.data[c]

InColumn(c) == ColumnCells(norm_frame, c)

AllNumbers(cells) == \A k \in 1..Len(cells) : cells[k].kind = "num"

(* C18: under the strict policy (force=False) the numeric conversion is    *)
(* all-or-nothing per column, for a DataFrame and for a list: a column    *)
(* becomes numeric only if every cell of it parses, and a column with a   *)
(* cell that does not parse keeps every cell as its original text.         *)
C18_StrictAllOrNothing ==
    (Converted /\ ~norm_arg.force) =>
        \A c \in 1..GridWidth :
            IF \A k \in 1..Len(InColumn(c)) : Parses(InColumn(c)[k])
            THEN AllNumbers(OutColumn(c))
            ELSE OutColumn(c) = InColumn(c)

\* the cells a conversion read and the cells it gave for them, pairwise
ConvertedPairs ==
    IF norm_op = "try_float_conversion"
    THEN { <<Text(ReplaceAll(norm_arg.text, <<",">>, <<".">>)), norm_out.cell>> }
    ELSE IF Converted
    THEN { <<InColumn(c)[k], OutColumn(c)[k]>> :
               c \in 1..GridWidth, k \in 1..Len(norm_frame.data) }
    ELSE {}

Coerced(cell) == TryFloatConversion(cell.text, FALSE)

(* C20: numeric coercion reaches every data cell of every normalized       *)
(* table, the value column of two-column key/value tables included: each  *)
(* data cell whose text is a number (with "," or "." as decimal           *)
(* separator) is that number after normalization, so that a row           *)
(* (x, "1,5") carries 1.5.                                                 *)
C20_CoercionReachesEveryDataCell ==
    (Normalized /\ norm_out.ok) =>
        \A k \in 1..Len(OutFrame.data) :
            \A c \in 1..Len(OutFrame.data[k]) :
                LET cell == OutFrame.data[k][c]
                IN  cell.kind = "text" => Coerced(cell).kind = "text"

----------------------------------------------------------------------------
(* Error propagation of the table extraction                               *)

(* C21: a failure while one table of a document is normalized does not     *)
(* keep the later tables from being processed: an extraction that has     *)
(* ended has raised nothing and gives one result, a table or an error,    *)
(* for every scanned table, in order.                                      *)
C21_OneResultPerTable ==
    ExtractEnded =>
        /\ ext_pc = "done"
        /\ Len(self_tables) = Len(scan_tables)

\* the same for the list call of ELNResponse._reformat_tables: one result
\* for each DataFrame handed over
OneResultPerFrame ==
    norm_op = "_reformat_tables (list)" => (norm_out.ok /\ Len(norm_out.tables) = 2)

----------------------------------------------------------------------------
(* Part 5: ELNImporter (src/elab_API.py)                                   *)

MaxItems == 2       \* items of an API answer or of a selection list
MaxPrompts == 2     \* rejected inputs at one selection prompt

\* the items of the lab notebook, as the dicts raw_items_list.json() holds
Items == {[id |-> 1, title |-> "a"], [id |-> 2, title |-> "b"]}

ItemLists == UNION {[1..n -> Items] : n \in 0..MaxItems}

\* what items.read_items(...) does: the server is not reached
\* (urllib3 MaxRetryError), or the body parses to null, or to a list of items
Answers ==
    {[kind |-> "unreachable", items |-> <<>>], [kind |-> "null", items |-> <<>>]}
    \cup {[kind |-> "list", items |-> l] : l \in ItemLists}

\* the texts typed at "Select experiment from list: "
SelectionTexts == InputTexts \cup {<<"-", " ", "1">>, <<"-", "2">>, <<"1", " ">>}

\* selection_list[selected_index], Python indexing: negative indexes count
\* from the end, anything outside -len..len-1 is an IndexError
InRange(l, idx) == 0 - Len(l) <= idx /\ idx < Len(l)

\* faulty variant of ItemAt: negative indexes counted from the front
ItemAt_FromFront(l, idx) == IF idx >= 0 THEN l[idx + 1] ELSE l[0 - idx]

ItemAt(l, idx) == IF idx >= 0 THEN l[idx + 1] ELSE l[Len(l) + idx + 1]

\* faulty variant of CheckUserSelection: negative indexes rejected
CheckUserSelection_NoNegative(user_selection, selection_list) ==
    LET p == ParseInt(ReplaceAll(user_selection, <<" ">>, <<>>))
    IN  IF p.ok /\ 0 <= p.val /\ p.val < Len(selection_list)
        THEN [kind |-> "int", val |-> p.val]
        ELSE [kind |-> "None", val |-> 0]

\* ELNImporter.check_user_selection: the index, or None after a ValueError
\* of int() or an IndexError of the subscript (both log "Invalid input!")
CheckUserSelection(user_selection, selection_list) ==
    LET p == ParseInt(ReplaceAll(user_selection, <<" ">>, <<>>))
    IN  IF ~p.ok THEN [kind |-> "None", val |-> 0]
        ELSE IF ~InRange(selection_list, p.val) THEN [kind |-> "None", val |-> 0]
        ELSE [kind |-> "int", val |-> p.val]

\* the object ELNResponse(item) makes; oid tells objects apart, stamped
\* says whether add_metadata("requestTimeStamp", ...) was called on it
ELNResponseObj(oid, item, stamped) ==
    [type |-> "ELNResponse", oid |-> oid, response |-> item, stamped |-> stamped]

\* an identity no object the importer holds has
RECURSIVE FreshOid(_, _)
FreshOid(held, n) ==
    IF held.type = "ELNResponse" /\ held.oid = n THEN FreshOid(held, n + 1) ELSE n

\* faulty variant of ResponseList: the items wrapped last to first
ResponseList_Reversed(items, held, from) ==
    LET base == IF held.type = "ELNResponse" THEN held.oid + 1 ELSE from
    IN  [k \in 1..Len(items) |->
            ELNResponseObj(base + k, items[Len(items) + 1 - k], FALSE)]

\* "for item in items_list: response_list.append(ELNResponse(item))"
RECURSIVE ResponseList(_, _, _)
ResponseList(items, held, from) ==
    IF items = <<>> THEN <<>>
    ELSE LET oid == FreshOid(held, from)
         IN  <<ELNResponseObj(oid, Head(items), FALSE)>>
             \o ResponseList(Tail(items), held, oid + 1)

\* the log lines of select_item_from_api_response before the first prompt
RECURSIVE TitleLines(_)
TitleLines(l) ==
    IF l = <<>> THEN <<>> ELSE <<Head(l).title>> \o TitleLines(Tail(l))

\* request from "self.response = ELNResponse(response=selection)" to
\* "return self.response" (no attachments asked for)
RequestFinish(selection) ==
    ELNResponseObj(FreshOid(imp_response, 0), selection, TRUE)

\* faulty variant of Working: the connection always reported as working
Working_AlwaysTrue(test_response) == "True"

\* ping_api: "if test_response is not None: self.working = True
\* else: self.working = False"
Working(test_response) == IF test_response.kind # "None" THEN "True" ELSE "False"

\* the end of the running call once an item is selected
Selected(selection, entries) ==
    /\ imp_pc' = "idle"
    /\ imp_log' = entries
    /\ CASE imp_call.fn = "select_item_from_api_response" ->
              /\ imp_ret' = [kind |-> "item", item |-> selection]
              /\ UNCHANGED <<imp_response, imp_working>>
         [] imp_call.fn = "request" ->
              /\ imp_response' = RequestFinish(selection)
              /\ imp_ret' = [kind |-> "response", obj |-> imp_response']
              /\ UNCHANGED imp_working
         [] imp_call.fn = "ping_api" ->
              \* test_response is the ELNResponse made; then clear_response()
              /\ imp_working' = Working([kind |-> "response",
                                         obj |-> RequestFinish(selection)])
              /\ imp_response' = [type |-> "none"]
              /\ imp_ret' = [kind |-> "bool", val |-> imp_working' = "True"]

\* a direct call check_user_selection(user_selection, selection_list)
CallCheckUserSelection(user_selection, selection_list) ==
    /\ imp_pc = "idle"
    /\ imp_call' = [NoImpCall EXCEPT !.fn = "check_user_selection"]
    /\ imp_input' = user_selection
    /\ imp_list' = selection_list
    /\ imp_ret' = CheckUserSelection(user_selection, selection_list)
    /\ imp_log' = IF imp_ret'.kind = "None" THEN <<"Invalid input!">> ELSE <<>>
    /\ UNCHANGED <<imp_response, imp_working, imp_pc>>
    /\ UNCHANGED outsideImp

\* a direct call select_item_from_api_response(response_list), up to input()
CallSelectItem(response_list) ==
    /\ imp_pc = "idle"
    /\ imp_call' = [NoImpCall EXCEPT !.fn = "select_item_from_api_response"]
    /\ imp_list' = response_list
    /\ imp_input' = <<>>
    /\ imp_ret' = NoImpRet
    /\ imp_log' = <<"Received multiple experiments from request:">>
                  \o TitleLines(response_list)
    /\ imp_pc' = "prompt"
    /\ UNCHANGED <<imp_response, imp_working>>
    /\ UNCHANGED outsideImp

\* one turn of "while True": input(), check_user_selection, and on an
\* accepted index the rest of the call
Prompt(user_selection) ==
    /\ imp_pc = "prompt"
    /\ Len(SelectSeq(imp_log, LAMBDA e : e = "Invalid input!")) < MaxPrompts
    /\ imp_input' = user_selection
    /\ LET selected_index == CheckUserSelection(user_selection, imp_list)
       IN  IF selected_index.kind = "None"
           THEN /\ imp_log' = Append(imp_log, "Invalid input!")
                /\ UNCHANGED <<imp_pc, imp_ret, imp_response, imp_working>>
           ELSE Selected(ItemAt(imp_list, selected_index.val), imp_log)
    /\ UNCHANGED <<imp_call, imp_list>>
    /\ UNCHANGED outsideImp

\* the body of request up to its return or to the selection prompt, given
\* what the API answered: the response held, the value handed back, where
\* the call stands and the log lines written
RequestBody(answer, allow_list, return_http_response, held) ==
    IF answer.kind = "unreachable"
    THEN \* except urllib3.exceptions.MaxRetryError: return None
         [response |-> held, ret |-> [kind |-> "None"], pc |-> "idle",
          log |-> <<"requesting data">>]
    ELSE IF return_http_response
    THEN \* self.response = raw_items_list, then
         \* self.response.add_importer_log(self.log) on an HTTPResponse
         [response |-> [type |-> "HTTPResponse"],
          ret |-> [kind |-> "raised", exc |-> "AttributeError"], pc |-> "idle",
          log |-> <<"requesting data", "received response for request">>]
    ELSE LET entries == <<"requesting data", "received response for request",
                          "converting HTTPResponse...">>
         IN  IF answer.kind = "null" \/ answer.items = <<>>
             THEN [response |-> held, ret |-> [kind |-> "None"], pc |-> "idle",
                   log |-> entries]
             ELSE IF allow_list
             THEN [response |-> held,
                   ret |-> [kind |-> "list", objs |-> ResponseList(answer.items, held, 0)],
                   pc |-> "idle", log |-> entries]
             ELSE IF Len(answer.items) = 1
             THEN LET made == ELNResponseObj(FreshOid(held, 0), answer.items[1], TRUE)
                  IN  [response |-> made, ret |-> [kind |-> "response", obj |-> made],
                       pc |-> "idle",
                       log |-> Append(entries, "successfully created ELNResponse object")]
             ELSE \* selection = self.select_item_from_api_response(items_list)
                  [response |-> held, ret |-> NoImpRet, pc |-> "prompt",
                   log |-> entries \o <<"Received multiple experiments from request:">>
                           \o TitleLines(answer.items)]

\* a call request(..., allow_list=, return_http_response=)
CallRequest(answer, allow_list, return_http_response) ==
    /\ imp_pc = "idle"
    /\ imp_call' = [fn |-> "request", allow_list |-> allow_list,
                    return_http_response |-> return_http_response]
    /\ imp_list' = answer.items
    /\ imp_input' = <<>>
    /\ LET r == RequestBody(answer, allow_list, return_http_response, imp_response)
       IN  /\ imp_response' = r.response
           /\ imp_ret' = r.ret
           /\ imp_pc' = r.pc
           /\ imp_log' = r.log
    /\ UNCHANGED imp_working
    /\ UNCHANGED outsideImp

\* a call ping_api(): test_response = self.request(limit=1), self.working,
\* self.clear_response(), return self.working
PingApi(answer) ==
    /\ imp_pc = "idle"
    /\ imp_call' = [NoImpCall EXCEPT !.fn = "ping_api"]
    /\ imp_list' = answer.items
    /\ imp_input' = <<>>
    /\ LET test == RequestBody(answer, FALSE, FALSE, imp_response)
       IN  /\ imp_log' = <<"sending test request">> \o test.log
           /\ IF test.pc = "prompt"
              THEN /\ imp_pc' = "prompt"
                   /\ imp_response' = test.response
                   /\ imp_ret' = NoImpRet
                   /\ UNCHANGED imp_working
              ELSE /\ imp_working' = Working(test.ret)
                   /\ imp_response' = [type |-> "none"]
                   /\ imp_ret' = [kind |-> "bool", val |-> imp_working' = "True"]
                   /\ UNCHANGED imp_pc
    /\ UNCHANGED outsideImp

InitImp ==
    /\ ProjParked
    /\ ScanParked(<<>>)
    /\ ExtParked
    /\ NormParked
    /\ ImpParked
    /\ MdParked
    /\ SumParked

NextImp ==
    \/ \E s \in SelectionTexts, l \in ItemLists : CallCheckUserSelection(s, l)
    \/ \E l \in ItemLists : CallSelectItem(l)
    \/ \E s \in SelectionTexts : Prompt(s)
    \/ \E a \in Answers, al \in BOOLEAN, h \in BOOLEAN : CallRequest(a, al, h)
    \/ \E a \in Answers : PingApi(a)

SpecImp == InitImp /\ [][NextImp]_vars

----------------------------------------------------------------------------
(* Claims about the importer                                               *)

\* the indexes of the list that a text, its spaces removed, is the
\* integer literal of
IndexesWritten(text, l) ==
    {k \in (0 - Len(l))..(Len(l) - 1) :
        ParseInt(ReplaceAll(text, <<" ">>, <<>>)) = [ok |-> TRUE, val |-> k]}

CheckEnded == imp_call.fn = "check_user_selection" /\ imp_pc = "idle"

(* C22: check_user_selection(input, list) returns the integer value of    *)
(* the input (spaces removed) exactly when the input parses as an integer *)
(* that is a valid index of the list, the negative indexes down to        *)
(* -len(list) included; for every other input it returns None and it      *)
(* never raises.                                                           *)
C22_SelectionIndexOrNone ==
    CheckEnded =>
        /\ imp_ret.kind \in {"int", "None"}
        /\ imp_ret.kind = "int" <=> IndexesWritten(imp_input, imp_list) # {}
        /\ imp_ret.kind = "int" => imp_ret.val \in IndexesWritten(imp_input, imp_list)

\* a negative index written with a blank inside was handed back
C22_Witness ==
    /\ CheckEnded
    /\ imp_input = <<"-", " ", "1">>
    /\ imp_ret = [kind |-> "int", val |-> 0 - 1]

\* the selection loop is at its prompt
Prompting == imp_pc = "prompt"

\* the text typed in this step is accepted by check_user_selection
AcceptedNow == CheckUserSelection(imp_input', imp_list).kind = "int"

(* C23: select_item_from_api_response keeps prompting until an input is   *)
(* accepted by check_user_selection and then returns the list item at the *)
(* accepted index: a rejected input leaves it at the prompt with nothing  *)
(* returned, the first accepted input ends it at once, and the item       *)
(* handed back is the one at the accepted index.                          *)
C23_PromptUntilAccepted ==
    /\ [](Prompting => imp_ret = NoImpRet)
    /\ [][Prompting =>
            IF AcceptedNow
            THEN /\ imp_pc' = "idle"
                 /\ imp_call.fn = "select_item_from_api_response" =>
                        LET idx == CheckUserSelection(imp_input', imp_list).val
                        IN  imp_ret' = [kind |-> "item",
                                        item |-> imp_list[(idx % Len(imp_list)) + 1]]
            ELSE imp_pc' = "prompt" /\ imp_ret' = NoImpRet]_vars

\* an item was selected by a negative index after a rejected input
C23_Witness ==
    /\ imp_call.fn = "select_item_from_api_response"
    /\ imp_pc = "idle"
    /\ imp_ret.kind = "item"
    /\ imp_input = <<"-", "1">>
    /\ Len(imp_list) = 2 /\ imp_list[1] # imp_list[2]
    /\ \E k \in 1..Len(imp_log) : imp_log[k] = "Invalid input!"

PingEnded == imp_call.fn = "ping_api" /\ imp_pc = "idle"

(* C24: after every call of ping_api, importer.working is True if the     *)
(* test request returned a non-None result (the API answered with at      *)
(* least one item) and False otherwise, the value returned equals         *)
(* importer.working, and importer.response is None.                       *)
C24_PingSetsWorkingAndClears ==
    PingEnded =>
        /\ imp_working = (IF imp_list # <<>> THEN "True" ELSE "False")
        /\ imp_ret = [kind |-> "bool", val |-> imp_working = "True"]
        /\ imp_response = [type |-> "none"]

\* a ping that failed
C24_Witness ==
    /\ PingEnded
    /\ imp_working = "False"
    /\ imp_ret = [kind |-> "bool", val |-> FALSE]

\* a ping_api step made while a response was held clears it
C24_HeldResponseCleared ==
    [][(imp_response.type = "ELNResponse" /\ imp_call'.fn = "ping_api" /\ imp_pc' = "idle")
           => imp_response' = [type |-> "none"]]_vars

\* a request for ELNResponse objects (return_http_response left False) has ended
RequestEnded ==
    /\ imp_call.fn = "request"
    /\ ~imp_call.return_http_response
    /\ imp_pc = "idle"

(* C25: request returns None when the API answers with an empty item      *)
(* list; with allow_list=True and a non-empty answer it returns one       *)
(* ELNResponse per item, in the API's order, each wrapping its item       *)
(* unchanged; with exactly one item and allow_list=False it returns an    *)
(* ELNResponse wrapping that item and importer.response is that object.   *)
C25_RequestResults ==
    RequestEnded =>
        /\ imp_list = <<>> => imp_ret = [kind |-> "None"]
        /\ (imp_list # <<>> /\ imp_call.allow_list) =>
              /\ imp_ret.kind = "list"
              /\ Len(imp_ret.objs) = Len(imp_list)
              /\ \A k \in 1..Len(imp_list) :
                    /\ imp_ret.objs[k].type = "ELNResponse"
                    /\ imp_ret.objs[k].response = imp_list[k]
        /\ (Len(imp_list) = 1 /\ ~imp_call.allow_list) =>
              /\ imp_ret.kind = "response"
              /\ imp_ret.obj.type = "ELNResponse"
              /\ imp_ret.obj.response = imp_list[1]
              /\ imp_response = imp_ret.obj

\* a list of two different items came back wrapped
C25_Witness ==
    /\ RequestEnded
    /\ imp_call.allow_list
    /\ imp_ret.kind = "list"
    /\ Len(imp_ret.objs) = 2
    /\ imp_ret.objs[1].response # imp_ret.objs[2].response

\* request(return_http_response=True) hands the HTTPResponse back
HttpResponseReturned ==
    (imp_call.fn = "request" /\ imp_call.return_http_response /\ imp_pc = "idle"
     /\ imp_response.type = "HTTPResponse")
        => imp_ret.kind # "raised"

----------------------------------------------------------------------------
(* Part 6: the metadata of an ELNResponse (src/elab_API.py)                *)

\* the keys add_metadata is called with: the predefined ones and a new one
MdKeys == PredefinedKeys \cup {"name"}

\* the values add_metadata is called with
MdValues == {MdNone, MdStr("b")}

\* what json.loads(self._response["metadata"]) gives: the key is absent,
\* null, a document without "extra_fields", one whose extra_fields lack
\* "experimentType", or one that names the type "experiment"
MetadataDocs == {"absent", "null", "no extra_fields", "no experimentType", "experiment"}

\* the dicts received from the API: each top-level element present (with
\* the value "a") or absent, and the "metadata" document
Responses ==
    {[fields |-> f, metadata |-> d] :
        f \in UNION {[S -> {MdStr("a")}] : S \in SUBSET PredefinedKeys},
        d \in MetadataDocs}

\* faulty variant of IdentifyExperimentType: a type held already is
\* replaced
IdentifyExperimentType_Overwrites(md, response) ==
    IF response.metadata \in {"absent", "null", "no extra_fields"}
    THEN [metadata |-> md, log |-> <<"WRN">>]
    ELSE [metadata |-> [md EXCEPT !["experimentType"] =
                           IF response.metadata = "experiment"
                           THEN MdStr("experiment") ELSE MdStr("unknown")],
          log |-> <<"PRC">>]

\* ELNResponse.identify_experiment_type: the metadata afterwards and the
\* categories of the log entries written
IdentifyExperimentType(md, response) ==
    IF md["experimentType"] # MdNone THEN [metadata |-> md, log |-> <<>>]
    ELSE IF response.metadata \in {"absent", "null"}
    THEN [metadata |-> md, log |-> <<"WRN">>]
    ELSE IF response.metadata = "no extra_fields"
    THEN [metadata |-> md, log |-> <<"WRN">>]
    ELSE [metadata |-> [md EXCEPT !["experimentType"] =
                           IF response.metadata = "experiment"
                           THEN MdStr("experiment") ELSE MdStr("unknown")],
          log |-> <<"PRC">>]

\* "for element in self._metadata: if self._metadata[element] is None and
\* element in self._response: self._metadata[element] = self._response[element]"
CopyFromResponse(md, response) ==
    [k \in DOMAIN md |->
        IF md[k] = MdNone /\ k \in DOMAIN response.fields
        THEN response.fields[k] ELSE md[k]]

\* faulty variant of AddMetadataWarns: a warning for every element present
AddMetadataWarns_WhenPresent(md, element) == element \in DOMAIN md

\* add_metadata: "element in self._metadata and self._metadata[element] is
\* not None"
AddMetadataWarns(md, element) == element \in DOMAIN md /\ md[element] # MdNone

\* self._metadata[element] = value
SetItem(md, element, value) ==
    [k \in DOMAIN md \cup {element} |-> IF k = element THEN value ELSE md[k]]

\* ELNResponse.add_metadata(element, value)
AddMetadata(element, value) ==
    /\ md_pc = "ready"
    /\ md_call' = [fn |-> "add_metadata", element |-> element, value |-> value]
    /\ md_log' = IF AddMetadataWarns(md_metadata, element) THEN <<"WRN">> ELSE <<>>
    /\ md_metadata' = SetItem(md_metadata, element, value)
    /\ md_ret' = ""
    /\ UNCHANGED <<md_response, md_id, md_pc>>
    /\ UNCHANGED outsideMd

\* ELNResponse.extract_metadata(), also the last statement of __init__
ExtractMetadata ==
    /\ md_call' = [NoMdCall EXCEPT !.fn = "extract_metadata"]
    /\ md_pc' = "ready"
    /\ LET identified == IdentifyExperimentType(md_metadata, md_response)
       IN  /\ md_metadata' = CopyFromResponse(identified.metadata, md_response)
           /\ md_log' = identified.log
    /\ IF "id" \in DOMAIN md_metadata' /\ md_id = MdNone
       THEN md_id' = md_metadata'["id"] /\ md_ret' = ""
       ELSE IF "id" \notin DOMAIN md_metadata' /\ md_id = MdNone
       THEN md_ret' = "AttributeError" /\ UNCHANGED md_id
       ELSE md_ret' = "" /\ UNCHANGED md_id
    /\ UNCHANGED md_response
    /\ UNCHANGED outsideMd

\* ELNResponse.__init__(response, response_id) up to
\* "if response is not None: self.extract_metadata()"
InitMd ==
    /\ ProjParked
    /\ ScanParked(<<>>)
    /\ ExtParked
    /\ NormParked
    /\ ImpParked
    /\ SumParked
    /\ md_response \in Responses
    /\ md_metadata = [k \in PredefinedKeys |-> MdNone]
    /\ md_id \in {MdNone, MdStr("7")}
    /\ md_pc = "init"
    /\ md_call = NoMdCall
    /\ md_ret = ""
    /\ md_log = <<>>

NextMd ==
    \/ \E element \in MdKeys, value \in MdValues : AddMetadata(element, value)
    \/ ExtractMetadata

SpecMd == InitMd /\ [][NextMd]_vars

----------------------------------------------------------------------------
(* Claims about the metadata of a response                                 *)

\* this step is a call of add_metadata / of extract_metadata
AddMetadataStep == md_call'.fn = "add_metadata"
ExtractMetadataStep == md_call'.fn = "extract_metadata"

(* C26: add_metadata(element, value) sets exactly that one element to     *)
(* value and leaves every other metadata element unchanged; the number of *)
(* metadata elements grows by one if the element was absent and stays the *)
(* same if it was present; an overwrite warning is logged exactly when    *)
(* the element was present with a non-None value.                         *)
C26_AddMetadataFrame ==
    [][AddMetadataStep =>
        LET element == md_call'.element
        IN  /\ md_metadata'[element] = md_call'.value
            /\ \A k \in DOMAIN md_metadata \ {element} :
                   k \in DOMAIN md_metadata' /\ md_metadata'[k] = md_metadata[k]
            /\ DOMAIN md_metadata' \subseteq DOMAIN md_metadata \cup {element}
            /\ Cardinality(DOMAIN md_metadata') =
                   Cardinality(DOMAIN md_metadata)
                   + (IF element \in DOMAIN md_metadata THEN 0 ELSE 1)
            /\ (md_log' # <<>>) <=>
                   (element \in DOMAIN md_metadata /\ md_metadata[element] # MdNone)
            /\ md_id' = md_id /\ md_response' = md_response]_vars

\* an element was added that was absent before, and one held as None was
\* set without a warning
C26_Witness ==
    /\ md_call.fn = "add_metadata"
    /\ md_call.element = "title"
    /\ md_call.value = MdStr("b")
    /\ md_log = <<>>
    /\ "name" \in DOMAIN md_metadata

(* C27 as stated: extract_metadata copies from the response only those    *)
(* predefined elements whose current value is None and that the response  *)
(* contains; elements that hold a non-None value are never overwritten,   *)
(* elements absent from the response stay None, no new key is created,    *)
(* and the id is taken from the metadata only when no id was set before.  *)
C27_ExtractMetadataFrame ==
    [][ExtractMetadataStep =>
        /\ DOMAIN md_metadata' = DOMAIN md_metadata
        /\ \A k \in DOMAIN md_metadata :
              /\ md_metadata[k] # MdNone => md_metadata'[k] = md_metadata[k]
              /\ (md_metadata[k] = MdNone /\ k \in DOMAIN md_response.fields)
                    => md_metadata'[k] = md_response.fields[k]
              /\ (md_metadata[k] = MdNone /\ k \notin DOMAIN md_response.fields)
                    => md_metadata'[k] = MdNone
        /\ md_id # MdNone => md_id' = md_id
        /\ md_id = MdNone => md_id' = md_metadata'["id"]]_vars

\* the experiment type the "metadata" document of the response gives
TypeFromDocument(response) ==
    CASE response.metadata = "experiment" -> MdStr("experiment")
      [] response.metadata = "no experimentType" -> MdStr("unknown")
      [] OTHER -> MdNone

\* what an element that is None is extracted to
Extracted(response, k) ==
    IF k = "experimentType" /\ TypeFromDocument(response) # MdNone
    THEN TypeFromDocument(response)
    ELSE IF k \in DOMAIN response.fields THEN response.fields[k] ELSE MdNone

(* C27 amended: as stated for every element but experimentType; an        *)
(* experimentType that is None is taken from the extra fields of the      *)
(* response's "metadata" document when that document has extra fields     *)
(* ("unknown" if they do not name the type), and otherwise like the other *)
(* elements.                                                               *)
C27_ExtractMetadataFrameAmended ==
    [][ExtractMetadataStep =>
        /\ DOMAIN md_metadata' = DOMAIN md_metadata
        /\ \A k \in DOMAIN md_metadata :
              md_metadata'[k] = (IF md_metadata[k] # MdNone THEN md_metadata[k]
                                 ELSE Extracted(md_response, k))
        /\ md_id # MdNone => md_id' = md_id
        /\ md_id = MdNone => md_id' = md_metadata'["id"]]_vars

\* an extraction made after the user gave a title and took the id back:
\* the title is kept, the id is read again, the type comes from the document
C27_Witness ==
    /\ md_call.fn = "extract_metadata"
    /\ md_metadata["title"] = MdStr("b")
    /\ md_response.fields = [k \in {"id", "title"} |-> MdStr("a")]
    /\ md_metadata["id"] = MdStr("a")
    /\ md_metadata["experimentType"] = MdStr("unknown")
    /\ md_id = MdStr("a")

----------------------------------------------------------------------------
(* Part 7: DataManager.generate_summary (src/data_processing.py; the copy  *)
(* in src/dataProcessing.py is the same statement for statement)           *)

MaxParams == 2      \* entries of desired_parameters

\* parameter names: a plain one and one of the form "name / unit"
ParamNames == {<<"n">>, <<"t", " ", "/", " ", "m">>}

\* the values of a dataset: a string, a number, None
SumValues == {[kind |-> "str", text |-> <<"s">>],
              [kind |-> "num", text |-> <<"1">>],
              [kind |-> "None", text |-> <<"N", "o", "n", "e">>]}

Datasets == UNION {[S -> SumValues] : S \in SUBSET ParamNames}

DesiredLists == UNION {[1..n -> ParamNames] : n \in 0..MaxParams}

Separators == {<<";", " ">>, <<";">>, <<>>}

MissingModes == {"raise", "ignore", "coerce"}

\* parameter.split(" / ", 1)[1] if the split gives two parts, else ""
RECURSIVE UnitOf(_)
UnitOf(parameter) ==
    IF Len(parameter) < 3 THEN <<>>
    ELSE IF StartsWith(parameter, <<" ", "/", " ">>)
    THEN SubSeq(parameter, 4, Len(parameter))
    ELSE UnitOf(Tail(parameter))

\* is_float(value): float(value) raises neither ValueError nor TypeError
IsFloat(value) == value.kind = "num"

\* DataManager._generate_param_value_string(element, value)
ParamValueString(element, value) ==
    IF IsFloat(value) /\ UnitOf(element) # <<>>
    THEN value.text \o <<" ">> \o UnitOf(element)
    ELSE value.text

\* display_parameters[param] = value on a dict kept as a sequence of
\* <<key, value>> pairs in insertion order
DisplaySet(d, key, value) ==
    IF \E n \in 1..Len(d) : d[n][1] = key
    THEN [n \in 1..Len(d) |-> IF d[n][1] = key THEN <<key, value>> ELSE d[n]]
    ELSE Append(d, <<key, value>>)

\* the first loop of generate_summary: display_parameters, or the KeyError
RECURSIVE DisplayParameters(_, _, _, _)
DisplayParameters(dataset, desired_parameters, handle_missing, display) ==
    IF desired_parameters = <<>> THEN [ok |-> TRUE, dict |-> display]
    ELSE LET param == Head(desired_parameters)
             rest == Tail(desired_parameters)
         IN  IF param \in DOMAIN dataset
             THEN DisplayParameters(dataset, rest, handle_missing,
                                    DisplaySet(display, param, dataset[param]))
             ELSE IF handle_missing = "raise" THEN [ok |-> FALSE, dict |-> display]
             ELSE IF handle_missing = "ignore"
             THEN DisplayParameters(dataset, rest, handle_missing, display)
             ELSE DisplayParameters(dataset, rest, handle_missing,
                      DisplaySet(display, param, [kind |-> "None",
                                               text |-> <<"N", "o", "n", "e">>]))

\* the second loop: summary += string; summary += separator
RECURSIVE Concatenated(_, _)
Concatenated(display, separator) ==
    IF display = <<>> THEN <<>>
    ELSE ParamValueString(Head(display)[1], Head(display)[2]) \o separator
         \o Concatenated(Tail(display), separator)

\* summary[:-n]
CutTail(text, n) == IF n = 0 THEN <<>> ELSE SubSeq(text, 1, Len(text) - n)

\* DataManager.generate_summary(dataset, desired_parameters, handle_missing,
\* separator) with use_vocabulary=False
GenerateSummary(dataset, desired_parameters, handle_missing, separator) ==
    /\ sum_call' = [dataset |-> dataset, desired_parameters |-> desired_parameters,
                    handle_missing |-> handle_missing, separator |-> separator]
    /\ LET display == DisplayParameters(dataset, desired_parameters, handle_missing, <<>>)
       IN  IF ~display.ok
           THEN /\ sum_ret' = [kind |-> "raised", exc |-> "KeyError"]
                /\ UNCHANGED sum_summary
           ELSE LET summary == CutTail(Concatenated(display.dict, separator),
                                        Len(separator))
                IN  /\ sum_summary' = [kind |-> "str", text |-> summary]
                    /\ sum_ret' = [kind |-> "str", text |-> summary]
    /\ UNCHANGED outsideSum

InitSum ==
    /\ ProjParked
    /\ ScanParked(<<>>)
    /\ ExtParked
    /\ NormParked
    /\ ImpParked
    /\ MdParked
    /\ SumParked

NextSum ==
    \E dataset \in Datasets, desired \in DesiredLists,
       mode \in MissingModes, separator \in Separators :
        GenerateSummary(dataset, desired, mode, separator)

SpecSum == InitSum /\ [][NextSum]_vars

----------------------------------------------------------------------------
(* Claims about the dataset summary                                        *)

\* the strings to list for the desired parameters, in the requested order
RECURSIVE Listed(_, _, _)
Listed(dataset, desired, mode) ==
    IF desired = <<>> THEN <<>>
    ELSE LET here == IF Head(desired) \in DOMAIN dataset
                     THEN <<ParamValueString(Head(desired), dataset[Head(desired)])>>
                     ELSE IF mode = "coerce" THEN <<<<"N", "o", "n", "e">>>>
                     ELSE <<>>
         IN  here \o Listed(dataset, Tail(desired), mode)

\* separator.join(strings)
RECURSIVE Joined(_, _)
Joined(strings, separator) ==
    IF strings = <<>> THEN <<>>
    ELSE IF Len(strings) = 1 THEN strings[1]
    ELSE strings[1] \o separator \o Joined(Tail(strings), separator)

\* a desired parameter is missing from the dataset of the call
SomeMissing(c) ==
    \E n \in 1..Len(c.desired_parameters) : c.desired_parameters[n] \notin DOMAIN c.dataset

\* what the claim says of one call
SummaryAsClaimed ==
    LET c == sum_call'
    IN  IF c.handle_missing = "raise" /\ SomeMissing(c)
        THEN /\ sum_ret' = [kind |-> "raised", exc |-> "KeyError"]
             /\ sum_summary' = sum_summary
        ELSE /\ sum_ret' = [kind |-> "str",
                            text |-> Joined(Listed(c.dataset, c.desired_parameters,
                                                   c.handle_missing), c.separator)]
             /\ sum_summary' = sum_ret'

(* C28: generate_summary lists the desired parameters in the requested    *)
(* order joined by the separator; a parameter missing from the dataset is *)
(* treated by mode: 'raise' raises KeyError and leaves the stored summary *)
(* unchanged, 'ignore' omits it, 'coerce' lists it as None; with no       *)
(* parameter listed the summary is the empty string, and on success the   *)
(* stored summary equals the returned string.                             *)
C28_SummaryByMode == [][SummaryAsClaimed]_vars

\* the call names no parameter twice and its separator is not empty
PlainCall(c) ==
    /\ c.separator # <<>>
    /\ \A n, m \in 1..Len(c.desired_parameters) :
           c.desired_parameters[n] = c.desired_parameters[m] => n = m

\* the same restricted to calls that name no parameter twice and separate
\* with a non-empty string
SummaryByModePlainCalls ==
    [][PlainCall(sum_call') => SummaryAsClaimed]_vars

----------------------------------------------------------------------------
(* Pairing of directive lists and blocks                                   *)

\* the list in the k-th place when the k-th block is cut out holds the
\* directive lines met since the block before was cut out, and a new list
\* is opened behind it
PairedAtEmit ==
    EmitsBlock =>
        /\ Len(commands) = Len(scan_tables')
        /\ commands[Len(commands)] = DirectivesOf(Slice(lines, stop_index, stop_index'))
        /\ commands' = Append(commands, <<>>)

\* the lists of the blocks cut out so far are never touched again, and the
\* return cuts off nothing but the list opened last
PairedListsKept ==
    (scan_pc = "scan" /\ ~EmitsBlock) =>
        /\ Len(commands') >= Len(scan_tables)
        /\ \A k \in 1..Len(scan_tables) : commands'[k] = commands[k]

(* C29: for every input text the scanner returns exactly one directive    *)
(* list per table block: the list of directive lists and the list of      *)
(* blocks have the same length and the k-th directive list is the one     *)
(* paired with the k-th block, so that commands[i] in extract_tables is   *)
(* never out of range and never another table's list.                     *)
C29_OneDirectiveListPerBlock ==
    /\ [](scan_pc = "done" =>
            /\ Len(commands) = Len(scan_tables)
            /\ Len(converted_tables) = Len(scan_tables)
            /\ ext_i <= Len(commands))
    /\ [][PairedAtEmit /\ PairedListsKept]_vars

\* the second of two blocks is reached in extract_tables, the first one
\* with a directive and the second one without
C29_Witness ==
    /\ scan_pc = "done"
    /\ output_format = "list"
    /\ ext_i = 2
    /\ Len(scan_tables) = 2
    /\ commands[1] # <<>>
    /\ commands[2] = <<>>

----------------------------------------------------------------------------
(* Failure of the projection under "raise error"                           *)

\* the call ends with the ValueError of a repeated key
DuplicateFailure == ret.kind = "raise" /\ ret.exc = "ValueError"

\* a step of a "raise error" call other than its successful return
BeforeMerge ==
    /\ call'.duplicate_handling = "raise error"
    /\ ~(pc = "loop" /\ todo = <<>>)

(* C30: when as_dict or __getitem__ fails under the "raise error" policy  *)
(* the response is left as it was before the call: from the entry of the  *)
(* call to the ValueError neither the metadata nor the tables change and  *)
(* no table key is merged, and the failure ends the call, so that a retry *)
(* with "use first" or "use last" starts from the same response.          *)
C30_FailureLeavesResponse ==
    /\ [](DuplicateFailure =>
            /\ pc = "idle"
            /\ todo = <<>>
            /\ call.duplicate_handling = "raise error")
    /\ [][BeforeMerge => (metadata' = metadata /\ tables' = tables)]_vars

\* a call has failed after it had collected a key that the metadata does
\* not hold
C30_Witness ==
    /\ DuplicateFailure
    /\ \E k \in DOMAIN table_dict : k \notin DOMAIN metadata

====
